---- MODULE Spec2Model ----
(***************************************************************************)
(* A model of the patent / M&A company-name matching pipeline:             *)
(*   step 1  (src/步骤1_自动清洗.py)   name cleaning and tiered matching   *)
(*   step 2  (src/步骤2_超级字典.py)   the master dictionary build         *)
(* Strings are sequences of one-character strings, so that strip, upper,   *)
(* replace and the regular expressions of the code are computed and not    *)
(* assumed.                                                                *)
(***************************************************************************)
EXTENDS Integers, Sequences, FiniteSets, TLC

VARIABLES
    \* ---- step 2: build_master_dictionary / save_dictionary / main
    files,            \* files_list: the declared, ordered decision batches
    fi,               \* position of the for loop over files_list (1-based)
    dpc,              \* "files" | "rows" | "save" | "done"
    df_valid,         \* the valid rows of the batch being processed
    ri,               \* position of the iterrows loop (1-based)
    master_dict,      \* { Assignee_Original : Original_Acquiror_Name }
    conflicts,        \* list of conflict records
    source_stats,     \* list of per-file statistics
    counts,           \* [new, duplicate, conflict] of the current batch
    log,              \* the warnings and errors logged so far
    out,              \* the files save_dictionary has written
    exit_code,        \* the process exit status, -1 while running
    \* ---- step 1: clean_company_name applied once and twice
    name,             \* the argument: a string or a non-string value
    cpc,              \* "start" | "once" | "twice"
    res1,             \* the outcome of clean_company_name(name)
    res2,             \* the outcome of clean_company_name(res1.value)
    \* ---- step 1: main, the tiered matching run
    df_main,          \* the registry: the column acquiror_name, in row order
    df_patent,        \* the patent records grouped by raw name: [assignee, n]
    main_clean,       \* df_main['clean_name'], aligned with df_main
    df_summary,       \* one row per raw name, in descending order of count
    acquiror_clean_list,  \* list(acquiror_clean_set)
    matches_for_review,   \* the candidates for manual review
    matches_auto,     \* the candidates accepted without review
    review_file,      \* Step1_Manual_Review.xlsx
    auto_file,        \* Step1_Auto_Results.xlsx
    mpc,              \* "load" | "tier1" | "tier2" | "tier3" | "export" | "done"
    \* ---- the reviewer of Step1_Manual_Review.xlsx
    review_state,     \* "pending" | "confirmed"
    \* ---- step 1: the fuzzy step of perform_matching on a large tier
    df_unmatched,     \* the unmatched rows of the tier: [assignee, clean_name]
    arg_list,         \* acquiror_clean_list as passed to perform_matching
    arg_threshold,    \* fuzzy_threshold as passed to perform_matching: 90 | 100
    n_cpu,            \* what multiprocessing.cpu_count() returns
    chunks,           \* np.array_split(df_unmatched, n_cores)
    results,          \* the result slot of each chunk of pool.map
    fuzzy_res,        \* fuzzy_res of the parallel branch
    serial_res,       \* fuzzy_res of the serial branch on the same rows
    ppc,              \* "serial" | "split" | "map" | "done" | "raised"
    \* ---- step 1: validate_matches
    df_matches,       \* the argument: a list of candidates
    issues,           \* the returned list of issues
    val_stats,        \* the returned statistics
    vpc,              \* "call" | "returned"
    \* ---- step 3: calculate_inventor_count_vectorized on one record
    inventors,        \* the cell of the column inventors
    inventor_names,   \* the cells of inventor_name1 .. inventor_name10
    final_inventor_count, \* the weight of the record
    wpc,              \* "call" | "returned"
    \* ---- step 3: main of src/步骤3_最终聚合.py, and the files around it
    registry_file,    \* final_outcome.xlsx: the registry table
    patent_file,      \* patent_database.csv: the patent records
    mapping,          \* Master_Company_Dictionary.pkl: raw name -> acquiror
    df_matched,       \* what process_patent_data returns
    df_stats,         \* the metric table aggregate_data returns
    df_names,         \* the alias table aggregate_data returns
    df_final,         \* what merge_to_final_outcome returns
    output_file,      \* final_outcome_1993_1997_COMPLETE.xlsx
    first_output,     \* the output file of the first run
    run,              \* 1 in the first run of step 3, 2 in the second
    apc,              \* "process" | "aggregate" | "merge" | "save" | "done"
    \* ---- step 4B: main of src/步骤4B_Compustat匹配.py
    main4b,           \* PATH_MAIN as read: the registry table (df_main)
    df_verify,        \* PATH_VERIFIED as read: the reviewed matches
    df_comp,          \* PATH_COMPUSTAT as read: conm, gvkey, cusip, cik
    read_ok,          \* FALSE when one of the three reads raises
    final4b,          \* PATH_OUTPUT: the table written (df_final)
    bpc,              \* "load" | "done" | "failed"
    \* ---- the two normalizers, of step 1 and of step 4A, on one value
    norm_name,        \* the argument: a string or a non-string value
    clean1,           \* the outcome of clean_company_name of step 1
    clean4a,          \* the outcome of clean_company_name of step 4A
    npc               \* "call" | "returned"

dictVars == <<files, fi, dpc, df_valid, ri, master_dict, conflicts,
              source_stats, counts, log, out, exit_code>>

cleanVars == <<name, cpc, res1, res2>>

matchVars == <<df_main, df_patent, main_clean, df_summary, acquiror_clean_list,
               matches_for_review, matches_auto, review_file, auto_file, mpc,
               review_state>>

parVars == <<df_unmatched, arg_list, arg_threshold, n_cpu, chunks, results,
             fuzzy_res, serial_res, ppc>>

valVars == <<df_matches, issues, val_stats, vpc>>

weightVars == <<inventors, inventor_names, final_inventor_count, wpc>>

aggVars == <<registry_file, patent_file, mapping, df_matched, df_stats, df_names,
             df_final, output_file, first_output, run, apc>>

fillVars == <<main4b, df_verify, df_comp, read_ok, final4b, bpc>>

normVars == <<norm_name, clean1, clean4a, npc>>

vars == <<dictVars, cleanVars, matchVars, parVars, valVars, weightVars, aggVars,
          fillVars, normVars>>

notDict == <<cleanVars, matchVars, parVars, valVars, weightVars, aggVars, fillVars, normVars>>
notClean == <<dictVars, matchVars, parVars, valVars, weightVars, aggVars, fillVars, normVars>>
notMatch == <<dictVars, cleanVars, parVars, valVars, weightVars, aggVars, fillVars, normVars>>
notPar == <<dictVars, cleanVars, matchVars, valVars, weightVars, aggVars, fillVars, normVars>>
notVal == <<dictVars, cleanVars, matchVars, parVars, weightVars, aggVars, fillVars, normVars>>
notWeight == <<dictVars, cleanVars, matchVars, parVars, valVars, aggVars, fillVars, normVars>>
notAgg == <<dictVars, cleanVars, matchVars, parVars, valVars, weightVars, fillVars, normVars>>
notFill == <<dictVars, cleanVars, matchVars, parVars, valVars, weightVars, aggVars,
            normVars>>
notNorm == <<dictVars, cleanVars, matchVars, parVars, valVars, weightVars, aggVars,
            fillVars>>

----------------------------------------------------------------------------
\* Strings

\* A null cell (pandas NaN / None): the one value that is no string. It is a
\* sequence so that TLC can compare it with strings.
NULL == <<"<NaN>">>

\* The whitespace characters str.strip() and \s know of in the model's alphabet.
IsSpace(c) == c \in {" ", "\t"}

RECURSIVE LStrip(_)
LStrip(s) ==
    IF s # <<>> /\ IsSpace(Head(s)) THEN LStrip(Tail(s)) ELSE s

RECURSIVE RStrip(_)
RStrip(s) ==
    IF s # <<>> /\ IsSpace(s[Len(s)]) THEN RStrip(SubSeq(s, 1, Len(s) - 1)) ELSE s

\* str.strip()
Strip(s) == RStrip(LStrip(s))

\* The characters the model's strings are made of.
UpperLetters ==
    {"A", "B", "C", "D", "E", "F", "G", "H", "I", "J", "K", "L", "M",
     "N", "O", "P", "Q", "R", "S", "T", "U", "V", "W", "X", "Y", "Z"}

LowerLetters ==
    {"a", "b", "c", "d", "e", "f", "g", "h", "i", "j", "k", "l", "m",
     "n", "o", "p", "q", "r", "s", "t", "u", "v", "w", "x", "y", "z"}

Digits == {"0", "1", "2", "3", "4", "5", "6", "7", "8", "9"}

\* The code point of a character.
CodePoints ==
    [c \in {"\t", " ", "&", "'", "-", ".", "\\", "_", "É", "é"} |->
        CASE c = "\t" -> 9 [] c = " " -> 32 [] c = "&" -> 38 [] c = "'" -> 39
          [] c = "-" -> 45 [] c = "." -> 46 [] c = "\\" -> 92 [] c = "_" -> 95
          [] c = "É" -> 201 [] c = "é" -> 233]
    @@ [c \in Digits |-> 48 + CHOOSE i \in 0..9 : c = ToString(i)]
    @@ [c \in UpperLetters |->
          64 + CHOOSE i \in 1..26 :
                 c = <<"A", "B", "C", "D", "E", "F", "G", "H", "I", "J", "K", "L", "M",
                           "N", "O", "P", "Q", "R", "S", "T", "U", "V", "W", "X", "Y", "Z">>[i]]
    @@ [c \in LowerLetters |->
          96 + CHOOSE i \in 1..26 :
                 c = <<"a", "b", "c", "d", "e", "f", "g", "h", "i", "j", "k", "l", "m",
                           "n", "o", "p", "q", "r", "s", "t", "u", "v", "w", "x", "y", "z">>[i]]

Code(c) == CodePoints[c]

\* s < t in Python's string order (code points, then length).
RECURSIVE StrLess(_, _)
StrLess(s, t) ==
    IF t = <<>> THEN FALSE
    ELSE IF s = <<>> THEN TRUE
    ELSE IF Head(s) # Head(t) THEN Code(Head(s)) < Code(Head(t))
    ELSE StrLess(Tail(s), Tail(t))

----------------------------------------------------------------------------
\* Step 1: clean_company_name

Str(s) == [type |-> "str", val |-> s, len |-> 0]

\* str.upper() of one character.
UpperOf ==
    [c \in LowerLetters |->
        <<"A", "B", "C", "D", "E", "F", "G", "H", "I", "J", "K", "L", "M",
          "N", "O", "P", "Q", "R", "S", "T", "U", "V", "W", "X", "Y", "Z">>[Code(c) - 96]]
    @@ ("é" :> "É")

Upper(c) == IF c \in DOMAIN UpperOf THEN UpperOf[c] ELSE c

UpperStr(s) == [i \in 1..Len(s) |-> Upper(s[i])]

\* [A-Z0-9]
IsUpperAlnum(c) == c \in UpperLetters \/ c \in Digits

\* \w of a str pattern: letters of any alphabet, digits and the underscore.
WordChars == UpperLetters \cup LowerLetters \cup Digits \cup {"_", "É", "é"}

IsWord(c) == c \in WordChars

\* Whether the character at position i of s exists and is a word character.
WordAt(s, i) == i >= 1 /\ i <= Len(s) /\ IsWord(s[i])

\* \b between position i and position i + 1 of s.
Boundary(s, i) == WordAt(s, i) # WordAt(s, i + 1)

\* str.replace(old, new) for a one-character old.
RECURSIVE Replace(_, _, _)
Replace(s, old, new) ==
    IF s = <<>> THEN <<>>
    ELSE (IF Head(s) = old THEN new ELSE <<Head(s)>>) \o Replace(Tail(s), old, new)

\* Whether the literal lit stands at position i of s; under re.IGNORECASE the
\* characters are compared by their upper case.
LitAt(s, i, lit, ignorecase) ==
    /\ i + Len(lit) - 1 <= Len(s)
    /\ \A k \in 1..Len(lit) :
          \/ s[i + k - 1] = lit[k]
          \/ ignorecase /\ Upper(s[i + k - 1]) = lit[k]

\* The length of the match of \b lit \b, or of \b lit \.? \b when optdot, at
\* position i of s; 0 when there is none. The optional dot is greedy.
MatchLen(s, i, lit, optdot, ignorecase) ==
    IF ~(Boundary(s, i - 1) /\ LitAt(s, i, lit, ignorecase)) THEN 0
    ELSE LET e == i + Len(lit) - 1
         IN  IF optdot /\ e + 1 <= Len(s) /\ s[e + 1] = "." /\ Boundary(s, e + 1)
             THEN Len(lit) + 1
             ELSE IF Boundary(s, e) THEN Len(lit)
             ELSE 0

\* re.sub of such a pattern: every match, found from left to right, becomes repl.
RECURSIVE SubFrom(_, _, _, _, _, _)
SubFrom(s, i, lit, optdot, ignorecase, repl) ==
    IF i > Len(s) THEN <<>>
    ELSE LET n == MatchLen(s, i, lit, optdot, ignorecase)
         IN  IF n > 0 THEN repl \o SubFrom(s, i + n, lit, optdot, ignorecase, repl)
             ELSE <<s[i]>> \o SubFrom(s, i + 1, lit, optdot, ignorecase, repl)

Sub(s, lit, optdot, ignorecase, repl) == SubFrom(s, 1, lit, optdot, ignorecase, repl)

\* The abbreviations dict of line 66-74, in insertion order.
abbreviations ==
    << << <<"I","N","T","L">>, <<"I","N","T","E","R","N","A","T","I","O","N","A","L">> >>,
       << <<"N","A","T","L">>, <<"N","A","T","I","O","N","A","L">> >>,
       << <<"C","O","R","P">>, <<"C","O","R","P","O","R","A","T","I","O","N">> >>,
       << <<"I","N","C">>, <<"I","N","C","O","R","P","O","R","A","T","E","D">> >>,
       << <<"M","F","G">>, <<"M","A","N","U","F","A","C","T","U","R","I","N","G">> >>,
       << <<"T","E","C","H">>, <<"T","E","C","H","N","O","L","O","G","Y">> >>,
       << <<"S","Y","S">>, <<"S","Y","S","T","E","M","S">> >> >>

\* suffixes_priority of line 80-90: the literal and whether \.? follows it.
suffixes_priority ==
    << << <<"I","N","C","O","R","P","O","R","A","T","E","D">>, FALSE >>,
       << <<"C","O","R","P","O","R","A","T","I","O","N">>, FALSE >>,
       << <<"C","O","M","P","A","N","Y">>, FALSE >>,
       << <<"L","I","M","I","T","E","D">>, FALSE >>,
       << <<"G","R","O","U","P">>, FALSE >>,
       << <<"C","O","R","P">>, TRUE >>,
       << <<"I","N","C">>, TRUE >>,
       << <<"L","T","D">>, TRUE >>,
       << <<"C","O">>, TRUE >>,
       << <<"L",".","L",".","C">>, TRUE >>,
       << <<"P","L","C">>, TRUE >>,
       << <<"L","L","C">>, FALSE >>,
       << <<"S",".","A",".">>, FALSE >>,
       << <<"N","V">>, FALSE >>,
       << <<"G","M","B","H">>, FALSE >>,
       << <<"S","A">>, FALSE >>,
       << <<"A","G">>, FALSE >>,
       << <<"K","K">>, FALSE >> >>

\* line 75-76: the abbreviations from the k-th on are expanded in turn.
RECURSIVE Expand(_, _)
Expand(s, k) ==
    IF k > Len(abbreviations) THEN s
    ELSE Expand(Sub(s, abbreviations[k][1], FALSE, FALSE, abbreviations[k][2]), k + 1)

\* line 92-93: the suffixes from the k-th on are removed in turn.
RECURSIVE RemoveSuffixes(_, _)
RemoveSuffixes(s, k) ==
    IF k > Len(suffixes_priority) THEN s
    ELSE RemoveSuffixes(Sub(s, suffixes_priority[k][1], suffixes_priority[k][2],
                            TRUE, <<>>), k + 1)

\* line 96: re.sub(r'[^A-Z0-9\s]', ' ', name)
Depunctuate(s) ==
    [i \in 1..Len(s) |-> IF IsUpperAlnum(s[i]) \/ IsSpace(s[i]) THEN s[i] ELSE " "]

\* line 99: re.sub(r'\s+', ' ', name)
RECURSIVE Collapse(_)
Collapse(s) ==
    IF s = <<>> THEN <<>>
    ELSE IF IsSpace(Head(s))
         THEN <<" ">> \o Collapse(LStrip(s))
         ELSE <<Head(s)>> \o Collapse(Tail(s))

\* line 58-101: clean_company_name on a string.
CleanStr(s) ==
    LET upper == Strip(UpperStr(s))
        symbols == Replace(Replace(Replace(upper, "&", <<" ", "A", "N", "D", " ">>),
                                   "-", <<" ">>), "'", <<>>)
    IN  Strip(Collapse(Depunctuate(RemoveSuffixes(Expand(symbols, 1), 1))))

\* pd.isna(name): a boolean for a scalar, an array of booleans, one for each
\* element, for a list. The array is given by its length (the elements of
\* the lists of the model are strings, none of them null).
IsNa(v) ==
    IF v.type = "list" THEN [array |-> TRUE, len |-> v.len, bool |-> FALSE]
    ELSE [array |-> FALSE, len |-> 0, bool |-> v.type \in {"none", "nan"}]

\* bool(x) of line 55 for the value pd.isna returns: the truth value of an
\* array of more than one element is a ValueError.
Truth(x) ==
    IF x.array /\ x.len > 1 THEN [raised |-> TRUE, bool |-> FALSE]
    ELSE [raised |-> FALSE, bool |-> x.bool]

Returned(s) == [raised |-> FALSE, value |-> s]
Raised == [raised |-> TRUE, value |-> <<>>]

\* clean_company_name, line 47-101.
clean_company_name(v) ==
    LET na == Truth(IsNa(v))
    IN  IF na.raised THEN Raised
        ELSE IF na.bool \/ v.type # "str" THEN Returned(<<>>)
        ELSE Returned(CleanStr(v.val))

\* The pieces the strings given to clean_company_name are made of.
Fragments ==
    {<<"I","N","C">>, <<"C","O","R","P">>, <<"C","O">>, <<"S","A">>,
     <<"S",".","A",".">>, <<"L",".","L",".","C">>, <<"T","E","C","H">>,
     <<"A">>, <<"3">>, <<"c">>, <<"_">>, <<".">>, <<" ">>, <<"&">>, <<"-">>,
     <<"'">>, <<"\\">>, <<"É">>}

MaxFragments == 2

RECURSIVE Concat(_)
Concat(ss) == IF ss = <<>> THEN <<>> ELSE Head(ss) \o Concat(Tail(ss))

\* The values given to clean_company_name: strings, None, NaN, a number and
\* lists of one and of two strings.
NonStrings ==
    {[type |-> "none", val |-> <<>>, len |-> 0],
     [type |-> "nan", val |-> <<>>, len |-> 0],
     [type |-> "int", val |-> <<>>, len |-> 0],
     [type |-> "list", val |-> <<>>, len |-> 1],
     [type |-> "list", val |-> <<>>, len |-> 2]}

NoResult == [raised |-> FALSE, value |-> <<>>]

CleanIdle ==
    /\ name = Str(<<>>) /\ cpc = "idle" /\ res1 = NoResult /\ res2 = NoResult

NormIdle ==
    /\ norm_name = Str(<<>>) /\ clean1 = NoResult /\ clean4a = NoResult /\ npc = "idle"

----------------------------------------------------------------------------
\* Step 1: the tiered matching run (main, line 206-421)

\* A cell of a table as an argument of clean_company_name: a string or a
\* null.
CellValue(cell) ==
    IF cell = NULL THEN [type |-> "nan", val |-> <<>>, len |-> 0] ELSE Str(cell)


\* str.split(): the words of s between runs of whitespace.
RECURSIVE SplitFrom(_, _)
SplitFrom(s, word) ==
    IF s = <<>> THEN (IF word = <<>> THEN <<>> ELSE <<word>>)
    ELSE IF IsSpace(Head(s))
         THEN (IF word = <<>> THEN <<>> ELSE <<word>>) \o SplitFrom(Tail(s), <<>>)
         ELSE SplitFrom(Tail(s), Append(word, Head(s)))

Tokens(s) == LET w == SplitFrom(s, <<>>) IN {w[i] : i \in DOMAIN w}

\* sorted(tokens)
RECURSIVE SortedTokens(_)
SortedTokens(ts) ==
    IF ts = {} THEN <<>>
    ELSE LET least == CHOOSE t \in ts : \A u \in ts \ {t} : StrLess(t, u)
         IN  <<least>> \o SortedTokens(ts \ {least})

\* " ".join(words)
RECURSIVE Join(_)
Join(ws) ==
    IF ws = <<>> THEN <<>>
    ELSE IF Len(ws) = 1 THEN ws[1]
    ELSE ws[1] \o <<" ">> \o Join(Tail(ws))

Max(a, b) == IF a >= b THEN a ELSE b

\* One row of the table of the longest common subsequence: from the row of
\* the prefix before character c to the row of the prefix with c.
RECURSIVE LcsRow(_, _, _, _)
LcsRow(prev, c, t, row) ==
    IF Len(row) = Len(t) + 1 THEN row
    ELSE LET j == Len(row)
             v == IF t[j] = c THEN prev[j] + 1 ELSE Max(prev[j + 1], row[j])
         IN  LcsRow(prev, c, t, Append(row, v))

RECURSIVE LcsRows(_, _, _)
LcsRows(s, t, prev) ==
    IF s = <<>> THEN prev[Len(t) + 1]
    ELSE LcsRows(Tail(s), t, LcsRow(prev, Head(s), t, <<0>>))

\* The length of the longest common subsequence of s and t.
Lcs(s, t) == LcsRows(s, t, [j \in 1..Len(t) + 1 |-> 0])

\* The Indel distance: insertions and deletions that turn s into t.
Indel(s, t) == Len(s) + Len(t) - 2 * Lcs(s, t)

\* Scores are kept in hundredths of a point: 100 is Points(100).
Points(n) == n * 100

\* The normalised similarity 100 - 100 * dist / lensum.
NormDistance(dist, lensum) ==
    IF lensum = 0 THEN Points(100)
    ELSE (Points(100) * (lensum - dist)) \div lensum

\* The token-set similarity of two strings: the best of the similarity of
\* the two sorted differences, each joined to the sorted intersection, and
\* of the intersection with each of them.
TokenSetScore(s1, s2) ==
    LET tokens_a == Tokens(s1)
        tokens_b == Tokens(s2)
        intersect == tokens_a \cap tokens_b
        diff_ab == SortedTokens(tokens_a \ tokens_b)
        diff_ba == SortedTokens(tokens_b \ tokens_a)
        ab_len == Len(Join(diff_ab))
        ba_len == Len(Join(diff_ba))
        sect_len == Len(Join(SortedTokens(intersect)))
        sep == IF sect_len # 0 THEN 1 ELSE 0
        sect_ab_len == sect_len + sep + ab_len
        sect_ba_len == sect_len + sep + ba_len
        result == NormDistance(Indel(Join(diff_ab), Join(diff_ba)),
                               sect_ab_len + sect_ba_len)
    IN  IF tokens_a = {} \/ tokens_b = {} THEN 0
        ELSE IF intersect # {} /\ (diff_ab = <<>> \/ diff_ba = <<>>) THEN Points(100)
        ELSE IF sect_len = 0 THEN result
        ELSE Max(result,
                 Max(NormDistance(sep + ab_len, sect_len + sect_ab_len),
                     NormDistance(sep + ba_len, sect_len + sect_ba_len)))

\* The inputs of a run. The patent table has NumOthers applicants that the
\* registry does not know, with 2, 4, ... records, and at most MaxNames
\* applicants out of RawNames, each with one of RecordCounts records. The
\* registry has at most MaxRegistry rows out of RegistryNames.
NumOthers == 19
MaxNames == 2
MaxRegistry == 2

Alphabet ==
    <<"A", "B", "C", "D", "E", "F", "G", "H", "I", "J", "K", "L", "M",
      "N", "O", "P", "Q", "R", "S", "T", "U", "V", "W", "X", "Y", "Z">>

Others == {[assignee |-> <<"Z", Alphabet[i]>>, n |-> 2 * i] : i \in 1..NumOthers}

RawNames ==
    {<<"A","C","M","E"," ","C","O","R","P">>,
     <<"D","E","L","T","A"," ","A","C","M","E">>,
     <<"D","E","L","T","A","S">>,
     <<"I","N","C",".">>}

RecordCounts == {3, 41}

RegistryNames ==
    {<<"A","C","M","E"," ","C","O","R","P","O","R","A","T","I","O","N">>,
     <<"A","C","M","E"," ","I","N","C">>,
     <<"D","E","L","T","A"," ","C","O">>,
     <<"C","O",".">>}

\* df['clean_name'] = df[column].apply(clean_company_name), line 226-227:
\* the cleaned name of every cell of the two name columns.
Cells == RegistryNames \cup {g.assignee : g \in Others} \cup RawNames \cup {NULL}

CleanColumn == [cell \in Cells |-> clean_company_name(CellValue(cell)).value]

Clean(cell) == CleanColumn[cell]

\* The token-set similarity of every two cleaned names.
CleanNames == {CleanColumn[cell] : cell \in Cells}

Scores == [s1 \in CleanNames, s2 \in CleanNames |-> TokenSetScore(s1, s2)]

\* fuzz.token_set_ratio(s1, s2, score_cutoff=cutoff): the similarity, 0 when
\* it is below the cutoff.
token_set_ratio(s1, s2, cutoff) ==
    IF Scores[s1, s2] >= cutoff THEN Scores[s1, s2] ELSE 0

NoMatch == [found |-> FALSE, name |-> <<>>, score |-> 0]

\* process.extractOne(query, choices, scorer=fuzz.token_set_ratio,
\* score_cutoff=cutoff): the choices are scored in order, a choice replaces
\* the best one so far only with a higher score, which becomes the cutoff,
\* and a score of 100 ends the scan.
RECURSIVE ExtractFrom(_, _, _, _)
RECURSIVE ExtractStep(_, _, _, _, _)
ExtractStep(query, choices, cutoff, best, score) ==
    IF score >= cutoff /\ (~best.found \/ score > best.score)
    THEN IF score = Points(100)
         THEN [found |-> TRUE, name |-> Head(choices), score |-> score]
         ELSE ExtractFrom(query, Tail(choices), score,
                          [found |-> TRUE, name |-> Head(choices), score |-> score])
    ELSE IF score = Points(100) THEN best
         ELSE ExtractFrom(query, Tail(choices), cutoff, best)

ExtractFrom(query, choices, cutoff, best) ==
    IF choices = <<>> THEN best
    ELSE ExtractStep(query, choices, cutoff, best,
                     token_set_ratio(query, Head(choices), cutoff))

\* extractOne without score_cutoff: the best choice whatever its score.
extractOneNoCutoff(query, choices, cutoff) == ExtractFrom(query, choices, 0, NoMatch)

extractOne(query, choices, cutoff) == ExtractFrom(query, choices, cutoff, NoMatch)

\* f'Fuzzy (≥{fuzzy_threshold})', with >= written for the sign ≥
FuzzyType(threshold) == IF threshold = 90 THEN "Fuzzy (>=90)" ELSE "Fuzzy (>=100)"

\* One element of strict_res / fuzzy_res.
Candidate(row, matched, match_type, score, tier_name) ==
    [Assignee_Original |-> row.assignee,
     Assignee_Clean |-> row.clean_name,
     Matched_Acquiror_Clean |-> matched,
     Match_Type |-> match_type,
     Similarity |-> score,
     Tier |-> tier_name]

\* line 304-318: the strict hits of the rows, in row order.
RECURSIVE StrictRes(_, _, _)
StrictRes(rows, clean_set, tier_name) ==
    IF rows = <<>> THEN <<>>
    ELSE (IF Head(rows).clean_name \in clean_set
          THEN <<Candidate(Head(rows), Head(rows).clean_name, "Strict",
                           Points(100), tier_name)>>
          ELSE <<>>) \o StrictRes(Tail(rows), clean_set, tier_name)

\* Unmatched without the test of line 308: every row goes on to the fuzzy step.
UnmatchedAll(rows, clean_set) == rows

\* line 304-318: the rows left for the fuzzy step (unmatched_list).
Unmatched(rows, clean_set) ==
    SelectSeq(rows, LAMBDA r : r.clean_name \notin clean_set)

\* line 353-362: the candidate of a row for the result of extractOne.
FuzzyHit(row, match_result, threshold, tier_name) ==
    IF match_result.found
    THEN <<Candidate(row, match_result.name, FuzzyType(threshold),
                     match_result.score, tier_name)>>
    ELSE <<>>

\* line 344-364: the fuzzy hits of the unmatched rows, in row order.
RECURSIVE FuzzyRes(_, _, _, _)
FuzzyRes(rows, clean_list, threshold, tier_name) ==
    IF rows = <<>> THEN <<>>
    ELSE FuzzyHit(Head(rows),
                  extractOne(Head(rows).clean_name, clean_list, Points(threshold)),
                  threshold, tier_name)
         \o FuzzyRes(Tail(rows), clean_list, threshold, tier_name)

\* perform_matching, line 293-368. The fuzzy step runs in the serial branch:
\* the parallel one needs more than 100 unmatched rows.
perform_matching(df_target, tier_name, has_fuzzy, fuzzy_threshold, clean_set, clean_list) ==
    LET unmatched_list == Unmatched(df_target, clean_set)
    IN  [strict |-> StrictRes(df_target, clean_set, tier_name),
         fuzzy |-> IF has_fuzzy /\ Len(unmatched_list) > 0
                   THEN FuzzyRes(unmatched_list, clean_list, fuzzy_threshold, tier_name)
                   ELSE <<>>]

\* line 271-277: the three tiers of the summary.
top_5_idx(summary) == (Len(summary) * 5) \div 100

df_tier1(summary) == SubSeq(summary, 1, top_5_idx(summary))

df_remaining(summary) == SubSeq(summary, top_5_idx(summary) + 1, Len(summary))

df_tier2(summary) == SelectSeq(df_remaining(summary), LAMBDA r : r.patent_count > 5)

df_tier3(summary) == SelectSeq(df_remaining(summary), LAMBDA r : r.patent_count <= 5)

\* get_orig_acquiror with .iloc[-1] for .iloc[0]: the last such name.
get_orig_acquiror_last(registry, cleaned, clean_val) ==
    IF \E i \in DOMAIN cleaned : cleaned[i] = clean_val
    THEN registry[CHOOSE i \in DOMAIN cleaned :
                    /\ cleaned[i] = clean_val
                    /\ \A j \in (i + 1)..Len(cleaned) : cleaned[j] # clean_val]
    ELSE <<>>

\* line 398-402: the first registry name whose cleaned name is clean_val,
\* the empty string when there is none.
get_orig_acquiror(registry, cleaned, clean_val) ==
    IF \E i \in DOMAIN cleaned : cleaned[i] = clean_val
    THEN registry[CHOOSE i \in DOMAIN cleaned :
                    /\ cleaned[i] = clean_val
                    /\ \A j \in 1..(i - 1) : cleaned[j] # clean_val]
    ELSE <<>>

\* line 404 / 417: the column Original_Acquiror_Name added to the candidates.
WithOriginal(matches, registry, cleaned) ==
    [i \in 1..Len(matches) |->
        [Assignee_Original |-> matches[i].Assignee_Original,
         Assignee_Clean |-> matches[i].Assignee_Clean,
         Matched_Acquiror_Clean |-> matches[i].Matched_Acquiror_Clean,
         Match_Type |-> matches[i].Match_Type,
         Similarity |-> matches[i].Similarity,
         Tier |-> matches[i].Tier,
         Original_Acquiror_Name |->
            get_orig_acquiror(registry, cleaned, matches[i].Matched_Acquiror_Clean)]]

\* The rank of a Match_Type among the three in ascending string order.
TypeRank(t) ==
    CASE t = "Fuzzy (>=100)" -> 1
      [] t = "Fuzzy (>=90)" -> 2
      [] t = "Strict" -> 3

RowBefore(a, b) ==
    \/ TypeRank(a.Match_Type) < TypeRank(b.Match_Type)
    \/ /\ a.Match_Type = b.Match_Type
       /\ a.Similarity < b.Similarity

\* line 408: sort_values(['Match_Type', 'Similarity']), both ascending; the
\* sort on two keys is stable.
RECURSIVE SortReview(_)
SortReview(rows) ==
    IF rows = <<>> THEN <<>>
    ELSE LET i == CHOOSE i \in DOMAIN rows :
                    /\ \A j \in DOMAIN rows : ~RowBefore(rows[j], rows[i])
                    /\ \A j \in 1..(i - 1) : RowBefore(rows[i], rows[j])
         IN  <<rows[i]>> \o
             SortReview(SubSeq(rows, 1, i - 1) \o SubSeq(rows, i + 1, Len(rows)))

\* A file a step may write: not written yet, or written with a content.
NotWritten == [written |-> FALSE, content |-> <<>>]
Written(c) == [written |-> TRUE, content |-> c]

\* df.drop_duplicates(subset=['acquiror_name']): the first row of each name.
DropDuplicates(registry) ==
    SelectSeq([i \in 1..Len(registry) |->
                  [v |-> registry[i],
                   first |-> \A j \in 1..(i - 1) : registry[j] # registry[i]]],
              LAMBDA e : e.first)

Column(rows) == [i \in 1..Len(rows) |-> rows[i].v]

\* line 251-258 after line 226-230: one row per raw name whose cleaned name
\* is not empty, with its cleaned name and its number of records.
Summary(groups) ==
    {[assignee |-> g.assignee,
      clean_name |-> Clean(g.assignee),
      patent_count |-> g.n] : g \in {h \in groups : Clean(h.assignee) # <<>>}}

\* line 261: sort_values('patent_count', ascending=False). The sort on one
\* key is not stable: rows of equal count come in any order.
RECURSIVE SortedByCount(_)
SortedByCount(rows) ==
    IF rows = {} THEN {<<>>}
    ELSE LET tops == {r \in rows : \A q \in rows : q.patent_count <= r.patent_count}
         IN  UNION {{<<r>> \o s : s \in SortedByCount(rows \ {r})} : r \in tops}

\* list(acquiror_clean_set): the elements of the set in some order.
ListsOf(S) ==
    {l \in [1..Cardinality(S) -> S] : \A i, j \in DOMAIN l : i # j => l[i] # l[j]}

MatchIdle ==
    /\ df_main = <<>> /\ df_patent = {} /\ main_clean = <<>> /\ df_summary = <<>>
    /\ acquiror_clean_list = <<>> /\ matches_for_review = <<>> /\ matches_auto = <<>>
    /\ review_file = NotWritten /\ auto_file = NotWritten /\ mpc = "idle"
    /\ review_state = "pending"

ParIdle ==
    /\ df_unmatched = <<>> /\ arg_list = <<>> /\ arg_threshold = 0 /\ n_cpu = 0
    /\ chunks = <<>> /\ results = <<>> /\ fuzzy_res = <<>> /\ serial_res = <<>>
    /\ ppc = "idle"

\* stats = {}: no key is set.
EmptyStats ==
    [keys |-> {}, one_to_many |-> 0, score_distribution |-> [count |-> 0, min |-> 0, max |-> 0],
     low_score_count |-> 0, short_names |-> 0, match_types |-> <<>>]

ValIdle ==
    /\ df_matches = <<>> /\ issues = <<>> /\ val_stats = EmptyStats /\ vpc = "idle"

WeightIdle ==
    /\ inventors = [type |-> "nan", num |-> 0, str |-> <<>>] /\ inventor_names = <<>>
    /\ final_inventor_count = 0
    /\ wpc = "idle"

\* A table: its columns in order and its rows, each a function of the
\* column names.
EmptyTable == [cols |-> <<>>, rows |-> <<>>]

AggIdle ==
    /\ registry_file = EmptyTable /\ patent_file = <<>> /\ mapping = <<>>
    /\ df_matched = <<>> /\ df_stats = EmptyTable /\ df_names = EmptyTable
    /\ df_final = EmptyTable /\ output_file = EmptyTable /\ first_output = EmptyTable
    /\ run = 0 /\ apc = "idle"

FillIdle ==
    /\ main4b = EmptyTable /\ df_verify = <<>> /\ df_comp = <<>>
    /\ read_ok = TRUE /\ final4b = EmptyTable /\ bpc = "idle"

----------------------------------------------------------------------------
\* Step 2: the master dictionary

MaxFiles == 3                       \* length of files_list
MaxRows == 2                        \* rows of all batches together

\* The rows a decision batch may hold in its two required columns: valid
\* pairs (one of them differing from another by trailing whitespace only),
\* a row with a null cell and a row with a blank cell.
Row(a, q) == [Assignee_Original |-> a, Original_Acquiror_Name |-> q]

Rows ==
    {Row(<<"A">>, <<"X">>), Row(<<"A">>, <<"Y">>), Row(<<"A", " ">>, <<"X">>),
     Row(<<"B">>, <<"Y">>), Row(NULL, <<"X">>), Row(<<"A">>, <<" ">>)}

\* A batch is a path and what os.path.exists / pd.read_excel make of it:
\*   "ok"          the file is read and has both required columns
\*   "missing"     os.path.exists is false
\*   "unreadable"  pd.read_excel raises
\*   "nocols"      a required column is absent
BadKinds == {"missing", "unreadable", "nocols"}

\* The shape of a list of batches: the kind and the number of rows of each.
Shapes(k) ==
    [1..k -> (BadKinds \X {0}) \cup ({"ok"} \X (0..MaxRows))]

RECURSIVE RowsBefore(_, _)
RowsBefore(shape, i) ==
    IF i <= 1 THEN 0 ELSE shape[i - 1][2] + RowsBefore(shape, i - 1)

\* The list of batches of a shape, its rows taken in order from `flat`. Each
\* batch is named by its path; the paths of a list are distinct.
Assemble(shape, flat) ==
    [i \in 1..Len(shape) |->
        [path |-> i,
         kind |-> shape[i][1],
         rows |-> SubSeq(flat, RowsBefore(shape, i) + 1, RowsBefore(shape, i + 1))]]

\* df.dropna(subset=required_cols), then the two strip() != "" filters.
RowValid(row) ==
    /\ row.Assignee_Original # NULL
    /\ row.Original_Acquiror_Name # NULL
    /\ Strip(row.Assignee_Original) # <<>>
    /\ Strip(row.Original_Acquiror_Name) # <<>>

ValidRows(rows) == SelectSeq(rows, RowValid)

\* Classify without the comparison of line 110: every known key conflicts.
ClassifyNoDuplicate(md, assignee_raw, acquiror_std) ==
    IF assignee_raw \notin DOMAIN md THEN "new" ELSE "conflict"

\* What the body of the iterrows loop does with one valid pair.
Classify(md, assignee_raw, acquiror_std) ==
    IF assignee_raw \notin DOMAIN md THEN "new"
    ELSE IF md[assignee_raw] = acquiror_std THEN "duplicate"
    ELSE "conflict"

\* ApplyPair with the assignment of line 105 outside the test: last write wins.
ApplyPairLastWins(md, assignee_raw, acquiror_std) ==
    (assignee_raw :> acquiror_std) @@ md

\* master_dict after one valid pair: only a new key is written.
ApplyPair(md, assignee_raw, acquiror_std) ==
    IF assignee_raw \notin DOMAIN md
    THEN md @@ (assignee_raw :> acquiror_std)
    ELSE md

\* ConflictRecord with the kept and the rejected name exchanged.
ConflictRecordSwapped(md, assignee_raw, acquiror_std, file_path) ==
    [Assignee |-> assignee_raw,
     Existing_Acquiror |-> acquiror_std,
     New_Acquiror |-> md[assignee_raw],
     Source_File |-> file_path]

\* The conflict record of line 116-121.
ConflictRecord(md, assignee_raw, acquiror_std, file_path) ==
    [Assignee |-> assignee_raw,
     Existing_Acquiror |-> md[assignee_raw],
     New_Acquiror |-> acquiror_std,
     Source_File |-> file_path]

\* Bump with `count_new += 1` for every row, whatever its branch.
BumpNewOnly(c, what) == [c EXCEPT !["new"] = @ + 1]

\* count_new += 1, count_duplicate += 1 or count_conflict += 1 (line 106,
\* 112, 115).
Bump(c, what) == [c EXCEPT ![what] = @ + 1]

ZeroCounts == [new |-> 0, duplicate |-> 0, conflict |-> 0]

\* AfterSkip with `break` for `continue`: the loop over the files ends.
AfterSkipBreak(i) == Len(files) + 1

\* The position of the file loop after a `continue` or a caught exception.
AfterSkip(i) == i + 1

EmptyDict == <<>>

\* The four files save_dictionary may write; none is written yet.
NoOutput ==
    [pkl |-> NotWritten, excel |-> NotWritten, stats |-> NotWritten,
     conflicts |-> NotWritten]

\* list(master_dict.items())
Items(md) == {<<k, md[k]>> : k \in DOMAIN md}

\* df_out.sort_values('Mapped_Acquiror_Name'): the rows in ascending order of
\* the mapped name; the default sort is not stable, so equal names may come
\* in any order.
SortedListings(md) ==
    {s \in [1..Cardinality(DOMAIN md) -> Items(md)] :
        /\ \A i, j \in DOMAIN s : i # j => s[i] # s[j]
        /\ \A i, j \in DOMAIN s : i < j => ~StrLess(s[j][2], s[i][2])}

\* SaveDictionary with the pickle written before the test of line 147.
SaveDictionaryWriteFirst(md, stats, confl, listing, before) ==
    IF md = EmptyDict
    THEN [ok |-> FALSE, out |-> [before EXCEPT !.pkl = Written(md)],
          log |-> <<<<"ERROR", "empty", 0>>>>]
    ELSE [ok |-> TRUE,
          out |-> [pkl |-> Written(md),
                   excel |-> Written(listing),
                   stats |-> IF stats # <<>> THEN Written(stats) ELSE before.stats,
                   conflicts |-> IF confl # <<>> THEN Written(confl)
                                 ELSE before.conflicts],
          log |-> <<>>]

\* save_dictionary, line 147-179: the result and the files after it.
SaveDictionary(md, stats, confl, listing, before) ==
    IF md = EmptyDict
    THEN [ok |-> FALSE, out |-> before, log |-> <<<<"ERROR", "empty", 0>>>>]
    ELSE [ok |-> TRUE,
          out |-> [pkl |-> Written(md),
                   excel |-> Written(listing),
                   stats |-> IF stats # <<>> THEN Written(stats) ELSE before.stats,
                   conflicts |-> IF confl # <<>> THEN Written(confl)
                                 ELSE before.conflicts],
          log |-> <<>>]

DictIdle ==
    /\ files = <<>> /\ fi = 0 /\ dpc = "idle" /\ df_valid = <<>> /\ ri = 0
    /\ master_dict = EmptyDict /\ conflicts = <<>> /\ source_stats = <<>>
    /\ counts = ZeroCounts /\ log = <<>> /\ out = NoOutput /\ exit_code = -1

DictInit ==
    /\ \E k \in 0..MaxFiles :
         \E shape \in Shapes(k) :
            /\ RowsBefore(shape, k + 1) <= MaxRows
            /\ \E flat \in [1..RowsBefore(shape, k + 1) -> Rows] :
                  files = Assemble(shape, flat)
    /\ fi = 1
    /\ dpc = "files"
    /\ df_valid = <<>>
    /\ ri = 1
    /\ master_dict = EmptyDict
    /\ conflicts = <<>>
    /\ source_stats = <<>>
    /\ counts = ZeroCounts
    /\ log = <<>>
    /\ out = NoOutput
    /\ exit_code = -1
    /\ CleanIdle
    /\ MatchIdle
    /\ ParIdle
    /\ ValIdle
    /\ WeightIdle
    /\ AggIdle
    /\ FillIdle
    /\ NormIdle

\* line 70-72: the file does not exist.
SkipMissing ==
    /\ dpc = "files" /\ fi <= Len(files)
    /\ files[fi].kind = "missing"
    /\ log' = Append(log, <<"WARNING", "missing", files[fi].path>>)
    /\ fi' = AfterSkip(fi)
    /\ UNCHANGED <<files, dpc, df_valid, ri, master_dict, conflicts,
                   source_stats, counts, out, exit_code>>
    /\ UNCHANGED notDict

\* line 77 raising, caught at line 135-136.
SkipUnreadable ==
    /\ dpc = "files" /\ fi <= Len(files)
    /\ files[fi].kind = "unreadable"
    /\ log' = Append(log, <<"ERROR", "unreadable", files[fi].path>>)
    /\ fi' = AfterSkip(fi)
    /\ UNCHANGED <<files, dpc, df_valid, ri, master_dict, conflicts,
                   source_stats, counts, out, exit_code>>
    /\ UNCHANGED notDict

\* line 80-83: a required column is absent.
SkipNoCols ==
    /\ dpc = "files" /\ fi <= Len(files)
    /\ files[fi].kind = "nocols"
    /\ log' = Append(log, <<"ERROR", "nocols", files[fi].path>>)
    /\ fi' = AfterSkip(fi)
    /\ UNCHANGED <<files, dpc, df_valid, ri, master_dict, conflicts,
                   source_stats, counts, out, exit_code>>
    /\ UNCHANGED notDict

\* line 77-97: the batch is read, filtered, and its counters are zeroed.
OpenBatch ==
    /\ dpc = "files" /\ fi <= Len(files)
    /\ files[fi].kind = "ok"
    /\ df_valid' = ValidRows(files[fi].rows)
    /\ ri' = 1
    /\ counts' = ZeroCounts
    /\ dpc' = "rows"
    /\ UNCHANGED <<files, fi, master_dict, conflicts, source_stats, log, out, exit_code>>
    /\ UNCHANGED notDict

\* line 99-123: one turn of the iterrows loop.
ProcessRow ==
    /\ dpc = "rows" /\ ri <= Len(df_valid)
    /\ LET assignee_raw == Strip(df_valid[ri].Assignee_Original)
           acquiror_std == Strip(df_valid[ri].Original_Acquiror_Name)
           what == Classify(master_dict, assignee_raw, acquiror_std)
       IN  /\ master_dict' = ApplyPair(master_dict, assignee_raw, acquiror_std)
           /\ counts' = Bump(counts, what)
           /\ conflicts' =
                IF what = "conflict"
                THEN Append(conflicts,
                            ConflictRecord(master_dict, assignee_raw, acquiror_std,
                                           files[fi].path))
                ELSE conflicts
           /\ log' = IF what = "conflict"
                     THEN Append(log, <<"WARNING", "conflict", files[fi].path>>)
                     ELSE log
    /\ ri' = ri + 1
    /\ UNCHANGED <<files, fi, dpc, df_valid, source_stats, out, exit_code>>
    /\ UNCHANGED notDict

\* line 125-133: the batch's statistics are appended.
CloseBatch ==
    /\ dpc = "rows" /\ ri > Len(df_valid)
    /\ source_stats' = Append(source_stats,
                              [File |-> files[fi].path,
                               Valid_Rows |-> Len(df_valid),
                               New_Mappings |-> counts.new,
                               Duplicates |-> counts.duplicate,
                               Conflicts |-> counts.conflict])
    /\ fi' = fi + 1
    /\ dpc' = "files"
    /\ UNCHANGED <<files, df_valid, ri, master_dict, conflicts, counts, log, out, exit_code>>
    /\ UNCHANGED notDict

\* line 138: the loop is over, build_master_dictionary returns.
ReturnBuild ==
    /\ dpc = "files" /\ fi > Len(files)
    /\ dpc' = "save"
    /\ UNCHANGED <<files, fi, df_valid, ri, master_dict, conflicts,
                   source_stats, counts, log, out, exit_code>>
    /\ UNCHANGED notDict

\* main, line 224-250: save_dictionary, then exit(0 if success else 1).
Save ==
    /\ dpc = "save"
    /\ \E listing \in SortedListings(master_dict) :
         LET r == SaveDictionary(master_dict, source_stats, conflicts, listing, out)
         IN  /\ out' = r.out
             /\ log' = log \o r.log
             /\ exit_code' = IF r.ok THEN 0 ELSE 1
    /\ dpc' = "done"
    /\ UNCHANGED <<files, fi, df_valid, ri, master_dict, conflicts, source_stats, counts>>
    /\ UNCHANGED notDict

DictNext ==
    \/ SkipMissing
    \/ SkipUnreadable
    \/ SkipNoCols
    \/ OpenBatch
    \/ ProcessRow
    \/ CloseBatch
    \/ ReturnBuild
    \/ Save

DictSpec == DictInit /\ [][DictNext]_vars

\* Step 1, the cleaning function alone: it is applied to a value, and again
\* to the string it returned.
CleanInit ==
    /\ \/ \E k \in 0..MaxFragments : \E fs \in [1..k -> Fragments] :
             name = Str(Concat(fs))
       \/ name \in NonStrings
    /\ cpc = "start"
    /\ res1 = NoResult
    /\ res2 = NoResult
    /\ DictIdle
    /\ MatchIdle
    /\ ParIdle
    /\ ValIdle
    /\ WeightIdle
    /\ AggIdle
    /\ FillIdle
    /\ NormIdle

\* clean_company_name(name)
CleanOnce ==
    /\ cpc = "start"
    /\ res1' = clean_company_name(name)
    /\ cpc' = "once"
    /\ UNCHANGED <<name, res2>>
    /\ UNCHANGED notClean

\* clean_company_name of the string the first call returned
CleanTwice ==
    /\ cpc = "once" /\ ~res1.raised
    /\ res2' = clean_company_name(Str(res1.value))
    /\ cpc' = "twice"
    /\ UNCHANGED <<name, res1>>
    /\ UNCHANGED notClean

CleanNext == CleanOnce \/ CleanTwice

CleanSpec == CleanInit /\ [][CleanNext]_vars

\* C7: clean_company_name is idempotent: for every string x,
\* clean_company_name(clean_company_name(x)) = clean_company_name(x).
C7_Idempotent ==
    (cpc = "twice" /\ name.type = "str") => res2.value = res1.value

\* C8: clean_company_name never raises: for None, NaN and every other value
\* that is no string it returns the empty string, for the empty string it
\* returns the empty string, and for every string it returns a string.
C8_TotalNeverRaises ==
    cpc \in {"once", "twice"}
    => /\ ~res1.raised
       /\ (name.type # "str" => res1.value = <<>>)
       /\ (name = Str(<<>>) => res1.value = <<>>)

\* What does hold of clean_company_name: it returns a string for every
\* scalar (a string, None, NaN, a number) and for a list of one element.
CleanScalarsTotal ==
    (cpc \in {"once", "twice"} /\ ~(name.type = "list" /\ name.len > 1))
    => /\ ~res1.raised
       /\ (name.type # "str" => res1.value = <<>>)

\* build_master_dictionary as a function of files_list: the mapping and the
\* conflict list it returns. One batch first, then the list.
RECURSIVE BuildRows(_, _, _)
BuildRows(rows, acc, file_path) ==
    IF rows = <<>> THEN acc
    ELSE LET assignee_raw == Strip(Head(rows).Assignee_Original)
             acquiror_std == Strip(Head(rows).Original_Acquiror_Name)
             what == Classify(acc.md, assignee_raw, acquiror_std)
         IN  BuildRows(Tail(rows),
                       [md |-> ApplyPair(acc.md, assignee_raw, acquiror_std),
                        conflicts |->
                            IF what = "conflict"
                            THEN Append(acc.conflicts,
                                        ConflictRecord(acc.md, assignee_raw,
                                                       acquiror_std, file_path))
                            ELSE acc.conflicts,
                        counts |-> Bump(acc.counts, what),
                        stats |-> acc.stats,
                        log |-> IF what = "conflict"
                                THEN Append(acc.log, <<"WARNING", "conflict", file_path>>)
                                ELSE acc.log],
                       file_path)

RECURSIVE BuildFiles(_, _)
BuildFiles(fs, acc) ==
    IF fs = <<>> THEN acc
    ELSE IF Head(fs).kind # "ok"
         THEN BuildFiles(Tail(fs),
                         [acc EXCEPT !.log =
                            Append(@, <<IF Head(fs).kind = "missing" THEN "WARNING"
                                        ELSE "ERROR",
                                        Head(fs).kind, Head(fs).path>>)])
    ELSE LET valid == ValidRows(Head(fs).rows)
             r == BuildRows(valid, [acc EXCEPT !.counts = ZeroCounts], Head(fs).path)
         IN  BuildFiles(Tail(fs),
                        [r EXCEPT !.stats =
                            Append(@, [File |-> Head(fs).path,
                                       Valid_Rows |-> Len(valid),
                                       New_Mappings |-> r.counts.new,
                                       Duplicates |-> r.counts.duplicate,
                                       Conflicts |-> r.counts.conflict])])

BuildResult(fs) ==
    BuildFiles(fs, [md |-> EmptyDict, conflicts |-> <<>>, counts |-> ZeroCounts,
                    stats |-> <<>>, log |-> <<>>])

----------------------------------------------------------------------------
\* Step 4A: clean_company_name of src/步骤4A_Compustat匹配.py, line 51-95,
\* next to that of step 1. The test of line 53, the upper case, the three
\* replacements, the abbreviations of line 64-72, the removal of punctuation
\* and the merging of spaces read as in step 1; the list of suffixes differs
\* in one pattern.

\* suffixes_priority of line 77-84: the literal, whether \.? follows it, and
\* whether the pattern ends in `.b` (any character but a newline, then the
\* letter b) where the others end in \b: line 82 has r'\bS\.A\\.b', that is
\* \b, S, a dot, A, a backslash, any character, b.
suffixes_priority_4A ==
    << << <<"I","N","C","O","R","P","O","R","A","T","E","D">>, FALSE, FALSE >>,
       << <<"C","O","R","P","O","R","A","T","I","O","N">>, FALSE, FALSE >>,
       << <<"C","O","M","P","A","N","Y">>, FALSE, FALSE >>,
       << <<"L","I","M","I","T","E","D">>, FALSE, FALSE >>,
       << <<"G","R","O","U","P">>, FALSE, FALSE >>,
       << <<"C","O","R","P">>, TRUE, FALSE >>,
       << <<"I","N","C">>, TRUE, FALSE >>,
       << <<"L","T","D">>, TRUE, FALSE >>,
       << <<"C","O">>, TRUE, FALSE >>,
       << <<"L",".","L",".","C">>, TRUE, FALSE >>,
       << <<"P","L","C">>, TRUE, FALSE >>,
       << <<"L","L","C">>, FALSE, FALSE >>,
       << <<"S",".","A","\\">>, FALSE, TRUE >>,
       << <<"N","V">>, FALSE, FALSE >>,
       << <<"G","M","B","H">>, FALSE, FALSE >>,
       << <<"S","A">>, FALSE, FALSE >>,
       << <<"A","G">>, FALSE, FALSE >>,
       << <<"K","K">>, FALSE, FALSE >> >>

\* The length of the match of \b lit . b at position i of s, 0 when there is
\* none; under re.IGNORECASE the b matches B as well.
AnyBLen(s, i, lit, ignorecase) ==
    IF /\ Boundary(s, i - 1)
       /\ LitAt(s, i, lit, ignorecase)
       /\ i + Len(lit) + 1 <= Len(s)
       /\ s[i + Len(lit)] # "\n"
       /\ \/ s[i + Len(lit) + 1] = "b"
          \/ ignorecase /\ Upper(s[i + Len(lit) + 1]) = "B"
    THEN Len(lit) + 2
    ELSE 0

MatchLen4A(s, i, pattern, ignorecase) ==
    IF pattern[3] THEN AnyBLen(s, i, pattern[1], ignorecase)
    ELSE MatchLen(s, i, pattern[1], pattern[2], ignorecase)

\* re.sub(suffix, '', name, flags=re.IGNORECASE) of line 87.
RECURSIVE Sub4AFrom(_, _, _)
Sub4AFrom(s, i, pattern) ==
    IF i > Len(s) THEN <<>>
    ELSE LET n == MatchLen4A(s, i, pattern, TRUE)
         IN  IF n > 0 THEN Sub4AFrom(s, i + n, pattern)
             ELSE <<s[i]>> \o Sub4AFrom(s, i + 1, pattern)

\* line 86-87: the suffixes from the k-th on are removed in turn.
RECURSIVE RemoveSuffixes4A(_, _)
RemoveSuffixes4A(s, k) ==
    IF k > Len(suffixes_priority_4A) THEN s
    ELSE RemoveSuffixes4A(Sub4AFrom(s, 1, suffixes_priority_4A[k]), k + 1)

\* line 56-95: clean_company_name of step 4A on a string.
CleanStr4A(s) ==
    LET upper == Strip(UpperStr(s))
        symbols == Replace(Replace(Replace(upper, "&", <<" ", "A", "N", "D", " ">>),
                                   "-", <<" ">>), "'", <<>>)
    IN  Strip(Collapse(Depunctuate(RemoveSuffixes4A(Expand(symbols, 1), 1))))

\* clean_company_name of step 4A, line 51-95.
clean_company_name_4A(v) ==
    LET na == Truth(IsNa(v))
    IN  IF na.raised THEN Raised
        ELSE IF na.bool \/ v.type # "str" THEN Returned(<<>>)
        ELSE Returned(CleanStr4A(v.val))

\* The pieces of the strings given to both normalizers: those of Fragments
\* and two that make a match of the pattern of line 82 of step 4A.
NormFragments ==
    Fragments \cup {<<"S",".","A","\\">>, <<"_","B">>}

MaxNormFragments == 2

NormInit ==
    /\ \/ \E k \in 0..MaxNormFragments : \E fs \in [1..k -> NormFragments] :
             norm_name = Str(Concat(fs))
       \/ norm_name \in NonStrings
    /\ clean1 = NoResult
    /\ clean4a = NoResult
    /\ npc = "call"
    /\ DictIdle
    /\ CleanIdle
    /\ MatchIdle
    /\ ParIdle
    /\ ValIdle
    /\ WeightIdle
    /\ AggIdle
    /\ FillIdle

\* The same value is given to clean_company_name of step 1 and to that of
\* step 4A.
Normalize ==
    /\ npc = "call"
    /\ clean1' = clean_company_name(norm_name)
    /\ clean4a' = clean_company_name_4A(norm_name)
    /\ npc' = "returned"
    /\ UNCHANGED norm_name
    /\ UNCHANGED notNorm

NormNext == Normalize

NormSpec == NormInit /\ [][NormNext]_vars

\* C22: the normalizer of step 4A is equivalent to that of step 1: for every
\* input value both return the same string, so a name that strict-matches
\* under one strict-matches under the other.
C22_SameNormalizer ==
    npc = "returned" => clean4a = clean1

----------------------------------------------------------------------------
\* Step 1, the matching run: its steps in the order of main

MatchInit ==
    /\ \E k \in 0..MaxRegistry : df_main \in [1..k -> RegistryNames]
    /\ \E names \in SUBSET RawNames :
          /\ Cardinality(names) <= MaxNames
          /\ \E n \in [names -> RecordCounts] :
                df_patent = Others \cup {[assignee |-> a, n |-> n[a]] : a \in names}
    /\ main_clean = <<>>
    /\ df_summary = <<>>
    /\ acquiror_clean_list = <<>>
    /\ matches_for_review = <<>>
    /\ matches_auto = <<>>
    /\ review_file = NotWritten
    /\ auto_file = NotWritten
    /\ mpc = "load"
    /\ review_state = "pending"
    /\ DictIdle
    /\ CleanIdle
    /\ ParIdle
    /\ ValIdle
    /\ WeightIdle
    /\ AggIdle
    /\ FillIdle
    /\ NormIdle

\* line 216-286: the registry without duplicates, the cleaned names, the
\* summary in descending order of count and the list of the canonical set.
Prepare ==
    /\ mpc = "load"
    /\ LET registry == Column(DropDuplicates(df_main))
           cleaned == [i \in 1..Len(registry) |-> Clean(registry[i])]
       IN  /\ df_main' = registry
           /\ main_clean' = cleaned
           /\ acquiror_clean_list' \in ListsOf({cleaned[i] : i \in DOMAIN cleaned})
    /\ df_summary' \in SortedByCount(Summary(df_patent))
    /\ mpc' = "tier1"
    /\ UNCHANGED <<df_patent, matches_for_review, matches_auto, review_file,
                   auto_file, review_state>>
    /\ UNCHANGED notMatch

acquiror_clean_set == {acquiror_clean_list[i] : i \in DOMAIN acquiror_clean_list}

\* Route with the strict hits of every tier accepted: Tier 1 as Tier 2.
RouteStrictAccepted(tier_name, r) ==
    IF tier_name = "Tier 3"
    THEN [review |-> <<>>, auto |-> r.strict]
    ELSE [review |-> r.fuzzy, auto |-> r.strict]

\* line 370-382: what a tier's hits add to matches_for_review and to
\* matches_auto.
Route(tier_name, r) ==
    CASE tier_name = "Tier 1" -> [review |-> r.strict \o r.fuzzy, auto |-> <<>>]
      [] tier_name = "Tier 2" -> [review |-> r.fuzzy, auto |-> r.strict]
      [] tier_name = "Tier 3" -> [review |-> <<>>, auto |-> r.strict]

\* line 371-373: Tier 1, threshold 90, every hit to the review list.
MatchTier1 ==
    /\ mpc = "tier1"
    /\ LET r == perform_matching(df_tier1(df_summary), "Tier 1", TRUE, 90,
                                 acquiror_clean_set, acquiror_clean_list)
       IN  /\ matches_for_review' = matches_for_review \o Route("Tier 1", r).review
           /\ matches_auto' = matches_auto \o Route("Tier 1", r).auto
    /\ mpc' = "tier2"
    /\ UNCHANGED <<df_main, df_patent, main_clean, df_summary, acquiror_clean_list,
                   review_file, auto_file, review_state>>
    /\ UNCHANGED notMatch

\* line 376-378: Tier 2, threshold 100, strict hits accepted, fuzzy hits to
\* the review list.
MatchTier2 ==
    /\ mpc = "tier2"
    /\ LET r == perform_matching(df_tier2(df_summary), "Tier 2", TRUE, 100,
                                 acquiror_clean_set, acquiror_clean_list)
       IN  /\ matches_for_review' = matches_for_review \o Route("Tier 2", r).review
           /\ matches_auto' = matches_auto \o Route("Tier 2", r).auto
    /\ mpc' = "tier3"
    /\ UNCHANGED <<df_main, df_patent, main_clean, df_summary, acquiror_clean_list,
                   review_file, auto_file, review_state>>
    /\ UNCHANGED notMatch

\* line 381-382: Tier 3, no fuzzy step, strict hits accepted.
MatchTier3 ==
    /\ mpc = "tier3"
    /\ LET r == perform_matching(df_tier3(df_summary), "Tier 3", FALSE, 0,
                                 acquiror_clean_set, acquiror_clean_list)
       IN  /\ matches_for_review' = matches_for_review \o Route("Tier 3", r).review
           /\ matches_auto' = matches_auto \o Route("Tier 3", r).auto
    /\ mpc' = "export"
    /\ UNCHANGED <<df_main, df_patent, main_clean, df_summary, acquiror_clean_list,
                   review_file, auto_file, review_state>>
    /\ UNCHANGED notMatch

\* line 398-421: each list that is not empty is written to its file.
Export ==
    /\ mpc = "export"
    /\ review_file' =
          IF matches_for_review # <<>>
          THEN Written(SortReview(WithOriginal(matches_for_review, df_main, main_clean)))
          ELSE review_file
    /\ auto_file' =
          IF matches_auto # <<>>
          THEN Written(WithOriginal(matches_auto, df_main, main_clean))
          ELSE auto_file
    /\ mpc' = "done"
    /\ UNCHANGED <<df_main, df_patent, main_clean, df_summary, acquiror_clean_list,
                   matches_for_review, matches_auto, review_state>>
    /\ UNCHANGED notMatch

MatchNext ==
    \/ Prepare
    \/ MatchTier1
    \/ MatchTier2
    \/ MatchTier3
    \/ Export

MatchSpec == MatchInit /\ [][MatchNext]_vars

----------------------------------------------------------------------------
\* Step 1: the fuzzy step of perform_matching on more than 100 unmatched rows
\* (perform_matching, line 323-364, and fuzzy_match_batch, line 127-155)

\* line 328: the parallel branch is taken with more than ParallelMin rows.
ParallelMin == 100

\* The inputs: ParallelMin + 1 .. ParallelMin + MaxExtra unmatched rows whose
\* cleaned names repeat a pattern of at most MaxPattern names, and a machine
\* of 1 .. MaxCpu processors.
MaxExtra == 3
MaxPattern == 2
MaxCpu == 6

UnmatchedNames ==
    {Clean(<<"D","E","L","T","A"," ","A","C","M","E">>), Clean(<<"D","E","L","T","A","S">>),
     Clean(<<"Z", "A">>)}

ChoiceNames == {Clean(cell) : cell \in RegistryNames} \ {<<>>}

\* pd.DataFrame(unmatched_list), line 326: one row per raw name, the raw
\* names all different.
UnmatchedRows(pattern, len) ==
    [i \in 1..len |->
        [assignee |-> pattern[((i - 1) % Len(pattern)) + 1]
                        \o <<" ", Alphabet[(i \div 26) + 1], Alphabet[(i % 26) + 1]>>,
         clean_name |-> pattern[((i - 1) % Len(pattern)) + 1]]]

\* The tier perform_matching is called for with a threshold, line 371-379.
TierOf(threshold) == IF threshold = 90 THEN "Tier 1" ELSE "Tier 2"

\* line 330: n_cores = min(cpu_count() - 1, 4).
n_cores(cpu_count) == IF cpu_count - 1 <= 4 THEN cpu_count - 1 ELSE 4

\* numpy.array_split: the row before which section i starts; the first
\* len % n sections have one row more than the others.
SectionStart(len, n, i) ==
    (i - 1) * (len \div n) + (IF i - 1 <= len % n THEN i - 1 ELSE len % n)

\* np.array_split(df_unmatched, n), line 331, for n > 0.
array_split(ary, n) ==
    [i \in 1..n |-> SubSeq(ary, SectionStart(Len(ary), n, i) + 1,
                           SectionStart(Len(ary), n, i + 1))]

\* line 145-155: what fuzzy_match_batch appends for a row.
BatchHit(row, match_result, threshold, tier_name) ==
    IF match_result.found
    THEN <<Candidate(row, match_result.name, FuzzyType(threshold),
                     match_result.score, tier_name)>>
    ELSE <<>>

\* fuzzy_match_batch((unmatched_chunk, acquiror_list, threshold, tier_name)),
\* line 127-155.
RECURSIVE fuzzy_match_batch(_, _, _, _)
fuzzy_match_batch(unmatched_chunk, acquiror_list, threshold, tier_name) ==
    IF unmatched_chunk = <<>> THEN <<>>
    ELSE BatchHit(Head(unmatched_chunk),
                  extractOne(Head(unmatched_chunk).clean_name, acquiror_list,
                             Points(threshold)),
                  threshold, tier_name)
         \o fuzzy_match_batch(Tail(unmatched_chunk), acquiror_list, threshold, tier_name)

\* A slot of pool.map that no worker has filled yet.
Pending == [done |-> FALSE, batch |-> <<>>]

\* line 341-342: fuzzy_res.extend(batch_result) for the results in order.
RECURSIVE Extend(_)
Extend(batches) ==
    IF batches = <<>> THEN <<>> ELSE Head(batches).batch \o Extend(Tail(batches))

ParInit ==
    /\ \E pattern \in UNION {[1..k -> UnmatchedNames] : k \in 1..MaxPattern},
          len \in (ParallelMin + 1)..(ParallelMin + MaxExtra) :
          df_unmatched = UnmatchedRows(pattern, len)
    /\ \E S \in SUBSET ChoiceNames : arg_list \in ListsOf(S)
    /\ arg_threshold \in {90, 100}
    /\ n_cpu \in 1..MaxCpu
    /\ chunks = <<>>
    /\ results = <<>>
    /\ fuzzy_res = <<>>
    /\ serial_res = <<>>
    /\ ppc = "serial"
    /\ DictIdle
    /\ CleanIdle
    /\ MatchIdle
    /\ ValIdle
    /\ WeightIdle
    /\ AggIdle
    /\ FillIdle
    /\ NormIdle

\* The serial branch, line 344-364, on the rows of the run: the reference
\* the parallel branch is compared with.
SerialFuzzy ==
    /\ ppc = "serial"
    /\ serial_res' = FuzzyRes(df_unmatched, arg_list, arg_threshold,
                               TierOf(arg_threshold))
    /\ ppc' = "split"
    /\ UNCHANGED <<df_unmatched, arg_list, arg_threshold, n_cpu, chunks, results,
                   fuzzy_res>>
    /\ UNCHANGED notPar

\* line 328-336: the branch is entered, the rows are split and the pool is
\* started. np.array_split raises ValueError ("number sections must be
\* larger than 0") for n_cores = 0; nothing in perform_matching or main
\* catches it.
SplitChunks ==
    /\ ppc = "split"
    /\ Len(df_unmatched) > ParallelMin
    /\ IF n_cores(n_cpu) <= 0
       THEN /\ ppc' = "raised"
            /\ UNCHANGED <<chunks, results>>
       ELSE /\ chunks' = array_split(df_unmatched, n_cores(n_cpu))
            /\ results' = [i \in 1..n_cores(n_cpu) |-> Pending]
            /\ ppc' = "map"
    /\ UNCHANGED <<df_unmatched, arg_list, arg_threshold, n_cpu, fuzzy_res, serial_res>>
    /\ UNCHANGED notPar

\* line 337: a worker of the pool runs fuzzy_match_batch on one chunk; the
\* chunks are taken in any order.
Worker ==
    /\ ppc = "map"
    /\ \E i \in DOMAIN chunks :
          /\ ~results[i].done
          /\ results' = [results EXCEPT ![i] =
                [done |-> TRUE,
                 batch |-> fuzzy_match_batch(chunks[i], arg_list, arg_threshold,
                                             TierOf(arg_threshold))]]
    /\ UNCHANGED <<df_unmatched, arg_list, arg_threshold, n_cpu, chunks, fuzzy_res,
                   serial_res, ppc>>
    /\ UNCHANGED notPar

\* line 337-342: pool.map returns the results in the order of the chunks
\* and they are concatenated.
Collect ==
    /\ ppc = "map"
    /\ \A i \in DOMAIN results : results[i].done
    /\ fuzzy_res' = Extend(results)
    /\ ppc' = "done"
    /\ UNCHANGED <<df_unmatched, arg_list, arg_threshold, n_cpu, chunks, results,
                   serial_res>>
    /\ UNCHANGED notPar

ParNext ==
    \/ SerialFuzzy
    \/ SplitChunks
    \/ Worker
    \/ Collect

ParSpec == ParInit /\ [][ParNext]_vars

----------------------------------------------------------------------------
\* Step 1: validate_matches (line 162-199)

\* The candidate lists validate_matches is checked with: at most MaxMatches
\* candidates out of every combination of two raw names, a short and a long
\* cleaned name, two canonical names and a similarity below and above 95.
MaxMatches == 2

MatchPool ==
    {Candidate([assignee |-> a, clean_name |-> c], matched,
               IF score = Points(100) THEN "Strict" ELSE "Fuzzy (>=90)", score, "Tier 1") :
        a \in {<<"3","M"," ","C","O">>, <<"A","C","M","E","S">>},
        c \in {<<"3","M">>, <<"A","C","M","E","S">>},
        matched \in {<<"A","C","M","E">>, <<"D","E","L","T","A">>},
        score \in {9090, Points(100)}}

\* The values of a column of the table.
ColumnValues(df, col) == {df[j][col] : j \in DOMAIN df}

\* one_to_many with groupby(...).count(): the groups with more than one row.
one_to_many_rows(df) ==
    {a \in ColumnValues(df, "Assignee_Original") :
        Cardinality({k \in DOMAIN df : df[k].Assignee_Original = a}) > 1}

\* line 173-174: df.groupby('Assignee_Original')['Matched_Acquiror_Clean']
\* .nunique(), the groups with more than one distinct matched name.
one_to_many(df) ==
    {a \in ColumnValues(df, "Assignee_Original") :
        Cardinality({df[j].Matched_Acquiror_Clean :
                        j \in {k \in DOMAIN df : df[k].Assignee_Original = a}}) > 1}

\* line 183: df_matches[df_matches['Similarity'] < 95].
low_score(df) == SelectSeq(df, LAMBDA c : c.Similarity < Points(95))

\* line 189: df_matches[df_matches['Assignee_Clean'].str.len() < 3].
short_names(df) == SelectSeq(df, LAMBDA c : Len(c.Assignee_Clean) < 3)

\* line 180-181: df_matches['Similarity'].describe().to_dict(); of its
\* entries the count, the minimum and the maximum are kept (the mean, the
\* deviation and the quartiles are floating-point statistics of the same
\* column).
score_distribution(df) ==
    LET all == ColumnValues(df, "Similarity")
    IN  [count |-> Len(df),
         min |-> CHOOSE x \in all : \A y \in all : x <= y,
         max |-> CHOOSE x \in all : \A y \in all : x >= y]

\* line 195-196: df_matches['Match_Type'].value_counts().to_dict().
match_type_dist(df) ==
    [t \in ColumnValues(df, "Match_Type") |->
        Cardinality({j \in DOMAIN df : df[j].Match_Type = t})]

\* An issue: the kind of the message and the number it quotes.
Issue(kind, n) == IF n > 0 THEN <<[kind |-> kind, n |-> n]>> ELSE <<>>

\* validate_matches(df_matches), line 162-199: (issues, stats).
validate_matches(df) ==
    IF df = <<>>
    THEN [issues |-> <<>>, stats |-> EmptyStats]
    ELSE [issues |-> Issue("one_to_many", Cardinality(one_to_many(df)))
                     \o Issue("low_score", Len(low_score(df)))
                     \o Issue("short_names", Len(short_names(df))),
          stats |-> [keys |-> {"score_distribution", "match_types"}
                              \cup (IF one_to_many(df) # {} THEN {"one_to_many"} ELSE {})
                              \cup (IF low_score(df) # <<>> THEN {"low_score_count"} ELSE {})
                              \cup (IF short_names(df) # <<>> THEN {"short_names"} ELSE {}),
                     one_to_many |-> Cardinality(one_to_many(df)),
                     score_distribution |-> score_distribution(df),
                     low_score_count |-> Len(low_score(df)),
                     short_names |-> Len(short_names(df)),
                     match_types |-> match_type_dist(df)]]

ValInit ==
    /\ \E k \in 0..MaxMatches : df_matches \in [1..k -> MatchPool]
    /\ issues = <<>>
    /\ val_stats = EmptyStats
    /\ vpc = "call"
    /\ DictIdle
    /\ CleanIdle
    /\ MatchIdle
    /\ ParIdle
    /\ WeightIdle
    /\ AggIdle
    /\ FillIdle
    /\ NormIdle

\* line 389: issues, stats = validate_matches(df_all_matches). The function
\* assigns to no column and no row of its argument.
Validate ==
    /\ vpc = "call"
    /\ issues' = validate_matches(df_matches).issues
    /\ val_stats' = validate_matches(df_matches).stats
    /\ vpc' = "returned"
    /\ UNCHANGED df_matches
    /\ UNCHANGED notVal

ValNext ==
    \/ Validate

ValSpec == ValInit /\ [][ValNext]_vars

----------------------------------------------------------------------------
\* Step 3: the weight of a record (calculate_inventor_count_vectorized,
\* src/步骤3_最终聚合.py line 59-71, called at line 152-155; the same function
\* is in src/步骤1_自动清洗.py, line 108-120)

\* line 145: inventor_name1 .. inventor_name10.
NumInventorCols == 10

\* The largest number the column inventors holds in the model.
MaxInventors == 7

\* A cell of a column read from the CSV file: NaN, a number or a string.
NaN == [type |-> "nan", num |-> 0, str |-> <<>>]
Num(n) == [type |-> "num", num |-> n, str |-> <<>>]
Text(str) == [type |-> "str", num |-> 0, str |-> str]

DecimalDigits == <<"0", "1", "2", "3", "4", "5", "6", "7", "8", "9">>

DigitValue(c) == (CHOOSE i \in DOMAIN DecimalDigits : DecimalDigits[i] = c) - 1

IsDigits(str) == str # <<>> /\ \A i \in DOMAIN str : str[i] \in Digits

RECURSIVE DecimalValue(_)
DecimalValue(str) ==
    IF str = <<>> THEN 0
    ELSE 10 * DecimalValue(SubSeq(str, 1, Len(str) - 1)) + DigitValue(str[Len(str)])

\* pd.to_numeric(cell, errors='coerce') of a cell that is NaN, a whole
\* number or a string: the number, the number a string of digits spells, or
\* NaN.
to_numeric(cell) ==
    CASE cell.type = "num" -> cell
      [] cell.type = "str" /\ IsDigits(cell.str) -> Num(DecimalValue(cell.str))
      [] OTHER -> NaN

\* .fillna(0).
fillna0(cell) == IF cell.type = "nan" THEN 0 ELSE cell.num

\* line 68: df[inventor_cols].notna().sum(axis=1) for one row.
RECURSIVE notna_sum(_)
notna_sum(cells) ==
    IF cells = <<>> THEN 0
    ELSE (IF Head(cells).type # "nan" THEN 1 ELSE 0) + notna_sum(Tail(cells))

\* np.minimum in the place of np.maximum.
np_minimum(a, b) == IF a <= b THEN a ELSE b

\* np.maximum(a, b), line 71.
np_maximum(a, b) == IF a >= b THEN a ELSE b

\* calculate_inventor_count_vectorized for one row, line 59-71.
calculate_inventor_count(inventors_cell, name_cells) ==
    np_maximum(fillna0(to_numeric(inventors_cell)), notna_sum(name_cells))

\* line 148-150: a column inventor_name<i> the file does not have is added
\* with NaN in every row.
EnsureColumns(name_cells) ==
    [i \in 1..NumInventorCols |-> IF i <= Len(name_cells) THEN name_cells[i] ELSE NaN]

\* The cells of the column inventors: NaN, the numbers up to MaxInventors,
\* and the strings a column of mixed content is read as.
InventorCells ==
    {NaN} \cup {Num(n) : n \in 0..MaxInventors}
    \cup {Text(<<"N","/","A">>), Text(<<"3">>), Text(<<"7">>), Text(<<"1","0">>)}

NameCell == Text(<<"K","I","M">>)

WeightInit ==
    /\ inventors \in InventorCells
    /\ \E k \in 0..NumInventorCols :
          inventor_names \in [1..k -> {NaN, NameCell}]
    /\ final_inventor_count = 0
    /\ wpc = "call"
    /\ DictIdle
    /\ CleanIdle
    /\ MatchIdle
    /\ ParIdle
    /\ ValIdle
    /\ AggIdle
    /\ FillIdle
    /\ NormIdle

\* line 145-155: the missing columns are added and the weight is computed.
Weigh ==
    /\ wpc = "call"
    /\ inventor_names' = EnsureColumns(inventor_names)
    /\ final_inventor_count' =
          calculate_inventor_count(inventors, EnsureColumns(inventor_names))
    /\ wpc' = "returned"
    /\ UNCHANGED inventors
    /\ UNCHANGED notWeight

WeightNext ==
    \/ Weigh

WeightSpec == WeightInit /\ [][WeightNext]_vars

----------------------------------------------------------------------------
\* Step 3: the aggregation (src/步骤3_最终聚合.py)

\* str.startswith(prefix) and "sub in str".
startswith(str, prefix) ==
    Len(str) >= Len(prefix) /\ SubSeq(str, 1, Len(prefix)) = prefix

contains(str, sub) ==
    \E i \in 0..(Len(str) - Len(sub)) : SubSeq(str, i + 1, i + Len(sub)) = sub

\* The decimal numeral of a natural number, as str(int(n)) writes it.
RECURSIVE Numeral(_)
Numeral(n) ==
    IF n < 10 THEN <<DecimalDigits[n + 1]>>
    ELSE Numeral(n \div 10) \o <<DecimalDigits[(n % 10) + 1]>>

\* The column names of the tables.
acquiror_name == <<"a","c","q","u","i","r","o","r","_","n","a","m","e">>
gvkey == <<"g","v","k","e","y">>
patent_ == <<"p","a","t","e","n","t","_">>
patent_inventor_ == <<"p","a","t","e","n","t","_","i","n","v","e","n","t","o","r","_">>
patent_name == <<"p","a","t","e","n","t","_","n","a","m","e">>
patent_name_ == <<"p","a","t","e","n","t","_","n","a","m","e","_">>

\* The elements of a set of numbers in ascending order.
RECURSIVE Ascending(_)
Ascending(S) ==
    IF S = {} THEN <<>>
    ELSE LET lo == CHOOSE x \in S : \A y \in S : x <= y
         IN  <<lo>> \o Ascending(S \ {lo})

\* The sum of a field (count or weight) over a list of rows.
RECURSIVE Total(_, _)
Total(rows, field) ==
    IF rows = <<>> THEN 0 ELSE Head(rows)[field] + Total(Tail(rows), field)

\* The column assignee without str.strip().
assignee_unstripped(r) == r.assignee

\* line 126: df_patent['assignee'].astype(str).str.strip().
assignee_stripped(r) == Strip(r.assignee)

\* Series.map with the raw name itself where the dictionary has no entry.
map_or_self(master, key) == IF key \in DOMAIN master THEN master[key] ELSE key

\* line 127: Series.map(master_dict) for one cell: NaN without an entry.
map_dict(master, key) == IF key \in DOMAIN master THEN master[key] ELSE NULL

\* line 127-135: the rows whose Matched_Acquiror is not null.
Resolved(df, master) ==
    SelectSeq(df, LAMBDA r : map_dict(master, assignee_stripped(r)) # NULL)

\* line 139-140: the rows whose application_year is a number.
WithYear(df) ==
    SelectSeq(df, LAMBDA r : to_numeric(r.application_year).type # "nan")

\* process_patent_data(df_patent, master_dict), line 120-159: the matched
\* rows with their acquiror, their year as an integer and their weight.
process_patent_data(df, master) ==
    LET kept == WithYear(Resolved(df, master))
    IN  [i \in 1..Len(kept) |->
            [assignee |-> kept[i].assignee,
             Matched_Acquiror |-> map_dict(master, assignee_stripped(kept[i])),
             application_year |-> to_numeric(kept[i].application_year).num,
             final_inventor_count |->
                 calculate_inventor_count(kept[i].inventors,
                                          EnsureColumns(kept[i].inventor_names))]]

\* line 168-171: groupby(['Matched_Acquiror', 'application_year']).agg(
\* assignee count, final_inventor_count sum): one row per group.
GroupKeys(matched) ==
    {<<matched[i].Matched_Acquiror, matched[i].application_year>> : i \in DOMAIN matched}

df_grouped(matched) ==
    {[Matched_Acquiror |-> k[1],
      application_year |-> k[2],
      assignee |-> Len(SelectSeq(matched, LAMBDA r :
                        r.Matched_Acquiror = k[1] /\ r.application_year = k[2])),
      final_inventor_count |-> Total(SelectSeq(matched, LAMBDA r :
                        r.Matched_Acquiror = k[1] /\ r.application_year = k[2]),
                        "final_inventor_count")] : k \in GroupKeys(matched)}

\* The values of a list.
Range(seq) == {seq[i] : i \in DOMAIN seq}

Years(matched) == {matched[i].application_year : i \in DOMAIN matched}

Entities(matched) == {matched[i].Matched_Acquiror : i \in DOMAIN matched}

\* line 180 and 189: f'patent_{int(col)}' and f'patent_inventor_{int(col)}'.
patent_col(year) == patent_ \o Numeral(year)

patent_inventor_col(year) == patent_inventor_ \o Numeral(year)

\* A cell of a pivot table: the value of the group, NaN without a group.
PivotCell(matched, entity, year, field) ==
    IF <<entity, year>> \in GroupKeys(matched)
    THEN Num((CHOOSE g \in df_grouped(matched) :
                 g.Matched_Acquiror = entity /\ g.application_year = year)[field])
    ELSE NaN

\* line 175-193: the two pivot tables, their columns renamed and put side
\* by side, one row per acquiror. The rows are keyed by the acquiror: their
\* order plays no part in the left merge that follows.
StatsTable(matched) ==
    LET years == Ascending(Years(matched))
    IN  [cols |-> [i \in 1..Len(years) |-> patent_col(years[i])]
                  \o [i \in 1..Len(years) |-> patent_inventor_col(years[i])],
         rows |-> [e \in Entities(matched) |->
                    [c \in {patent_col(y) : y \in Years(matched)}
                           \cup {patent_inventor_col(y) : y \in Years(matched)} |->
                        LET y == CHOOSE y \in Years(matched) :
                                     c \in {patent_col(y), patent_inventor_col(y)}
                        IN  IF c = patent_col(y)
                            THEN PivotCell(matched, e, y, "assignee")
                            ELSE PivotCell(matched, e, y, "final_inventor_count")]]]

\* The raw names of the matched rows of an acquiror.
Aliases(matched, entity) ==
    {matched[i].assignee : i \in {j \in DOMAIN matched : matched[j].Matched_Acquiror = entity}}

\* line 200-202: list(set(x)) per acquiror. A set of str is iterated in the
\* order of the string hashes of the process: every order of the names is
\* possible.
AliasOrders(matched) ==
    {f \in [Entities(matched) ->
                UNION {ListsOf(Aliases(matched, e)) : e \in Entities(matched)}] :
        \A e \in Entities(matched) : f[e] \in ListsOf(Aliases(matched, e))}

\* line 205: the largest number of aliases of an acquiror, 0 without
\* acquirors.
max_len(matched) ==
    IF Entities(matched) = {} THEN 0
    ELSE CHOOSE n \in {Cardinality(Aliases(matched, e)) : e \in Entities(matched)} :
            \A e \in Entities(matched) : Cardinality(Aliases(matched, e)) <= n

\* line 206-209: patent_name, patent_name_1, ...: as many as the expanded
\* table has columns.
name_cols(n) ==
    [i \in 1..n |-> IF i = 1 THEN patent_name ELSE patent_name_ \o Numeral(i - 1)]

\* line 200-212: the alias table for the orders list(set(x)) gave, one row
\* per acquiror, short lists filled with None.
NamesTable(matched, order) ==
    [cols |-> name_cols(max_len(matched)),
     rows |-> [e \in Entities(matched) |->
                [c \in Range(name_cols(max_len(matched))) |->
                    LET i == CHOOSE i \in 1..max_len(matched) :
                                 name_cols(max_len(matched))[i] = c
                    IN  IF i <= Len(order[e]) THEN Text(order[e][i]) ELSE NaN]]]

\* line 95-96: read_excel and drop_duplicates(subset=['acquiror_name'],
\* keep='first').
RECURSIVE KeepFirst(_, _)
KeepFirst(rows, seen) ==
    IF rows = <<>> THEN <<>>
    ELSE IF Head(rows)[acquiror_name] \in seen THEN KeepFirst(Tail(rows), seen)
    ELSE <<Head(rows)>> \o KeepFirst(Tail(rows), seen \cup {Head(rows)[acquiror_name]})

\* load_main_database without the drop_duplicates of line 96.
load_main_database_all(file) == [cols |-> file.cols, rows |-> file.rows]

load_main_database(file) == [cols |-> file.cols, rows |-> KeepFirst(file.rows, {})]

\* line 223-224: the columns merge_to_final_outcome removes.
IsOldColumn(c) == startswith(c, patent_) \/ startswith(c, patent_inventor_)

\* line 226: df_main.drop(columns=cols_to_remove).
DropOldColumns(main) ==
    LET kept == SelectSeq(main.cols, LAMBDA c : ~IsOldColumn(c))
    IN  [cols |-> kept,
         rows |-> [i \in DOMAIN main.rows |-> [c \in Range(kept) |-> main.rows[i][c]]]]

\* pd.merge(left, right, on='acquiror_name', how='left'), line 231 and 235:
\* the rows of left in their order, with the cells of the row of right for
\* the same acquiror, NaN without one.
LeftMerge(left, right) ==
    [cols |-> left.cols \o right.cols,
     rows |-> [i \in DOMAIN left.rows |->
                [c \in Range(left.cols) \cup Range(right.cols) |->
                    IF c \in Range(left.cols) THEN left.rows[i][c]
                    ELSE IF /\ left.rows[i][acquiror_name].type = "str"
                            /\ left.rows[i][acquiror_name].str \in DOMAIN right.rows
                         THEN right.rows[left.rows[i][acquiror_name].str][c]
                         ELSE NaN]]]

\* line 238-240: the columns that are zero-filled.
stat_cols(cols) ==
    {c \in Range(cols) : IsOldColumn(c) /\ ~contains(c, <<"n","a","m","e">>)}

\* The merged table as it is, without fillna(0).astype(int).
FillNothing(table) == table

\* line 241: df_final[stat_cols].fillna(0).astype(int).
FillStats(table) ==
    [cols |-> table.cols,
     rows |-> [i \in DOMAIN table.rows |->
                [c \in Range(table.cols) |->
                    IF c \in stat_cols(table.cols) /\ table.rows[i][c].type = "nan"
                    THEN Num(0)
                    ELSE table.rows[i][c]]]]

\* merge_to_final_outcome(df_main, df_stats, df_names), line 217-249.
merge_to_final_outcome(main, stats, names) ==
    FillStats(LeftMerge(LeftMerge(DropOldColumns(main), stats), names))

\* Step 4B (src/步骤4B_Compustat匹配.py, line 133-172) on the output of step
\* 3: the identifier columns are added where the table lacks them and the
\* empty cells of the verified acquirors are filled.
cusip == <<"c","u","s","i","p">>
cik == <<"c","i","k">>
compustat_name == <<"c","o","m","p","u","s","t","a","t","_","n","a","m","e">>

IdColumns == <<gvkey, cusip, cik, compustat_name>>

conm == <<"c","o","n","m">>

\* drop_duplicates(subset=[key]), keep='first': a row is kept unless an
\* earlier row has its value under key.
AppendIfNew(kept, row, key) ==
    IF \E i \in DOMAIN kept : kept[i][key] = row[key] THEN kept ELSE Append(kept, row)

RECURSIVE drop_duplicates_on(_, _)
drop_duplicates_on(rows, key) ==
    IF rows = <<>> THEN <<>>
    ELSE AppendIfNew(drop_duplicates_on(SubSeq(rows, 1, Len(rows) - 1), key),
                     rows[Len(rows)], key)

\* line 105-108: the rows of Compustat with a name, the first of each name.
df_comp_unique(comp) ==
    drop_duplicates_on(SelectSeq(comp, LAMBDA r : r[conm].type # "nan"), conm)

\* line 117-123 and 136-141: the left merge of one verified row with
\* df_comp_unique on Matched_Compustat_Original = conm, and the entry made of
\* it: the identifiers of the Compustat row, NaN without one, and the matched
\* name itself as compustat_name.
IdsOf(v, unique) ==
    [c \in Range(IdColumns) |->
        IF c = compustat_name THEN v.Matched_Compustat_Original
        ELSE IF \E i \in DOMAIN unique : unique[i][conm] = v.Matched_Compustat_Original
             THEN unique[CHOOSE i \in DOMAIN unique :
                            unique[i][conm] = v.Matched_Compustat_Original][c]
             ELSE NaN]

\* line 74 and 133-141: acquiror_to_ids as main builds it from the verified
\* matches, one entry per Acquiror_Original.
build_acquiror_to_ids(verify, comp) ==
    LET v == drop_duplicates_on(verify, "Acquiror_Original")
    IN  [a \in {v[i].Acquiror_Original.str : i \in DOMAIN v} |->
            IdsOf(v[CHOOSE i \in DOMAIN v : v[i].Acquiror_Original.str = a],
                  df_comp_unique(comp))]

\* fill_ids without the pd.isna tests of line 157-164: the identifiers of a
\* verified acquiror replace what the row holds.
fill_ids_overwrite(main, ids) ==
    LET added == SelectSeq(IdColumns, LAMBDA c : c \notin Range(main.cols))
        cols == main.cols \o added
    IN  [cols |-> cols,
         rows |-> [i \in DOMAIN main.rows |->
                    [c \in Range(cols) |->
                        LET cell == IF c \in Range(main.cols) THEN main.rows[i][c] ELSE NaN
                            key == main.rows[i][acquiror_name]
                        IN  IF /\ c \in Range(IdColumns)
                               /\ key.type = "str"
                               /\ key.str \in DOMAIN ids
                            THEN ids[key.str][c]
                            ELSE cell]]]

\* line 144-164: the copy of df_main, the identifier columns it lacks added
\* with None, and for every row whose acquiror_name is a key of ids each
\* null identifier cell set to the entry's value.
fill_ids(main, ids) ==
    LET added == SelectSeq(IdColumns, LAMBDA c : c \notin Range(main.cols))
        cols == main.cols \o added
    IN  [cols |-> cols,
         rows |-> [i \in DOMAIN main.rows |->
                    [c \in Range(cols) |->
                        LET cell == IF c \in Range(main.cols) THEN main.rows[i][c] ELSE NaN
                            key == main.rows[i][acquiror_name]
                        IN  IF /\ c \in Range(IdColumns)
                               /\ cell.type = "nan"
                               /\ key.type = "str"
                               /\ key.str \in DOMAIN ids
                            THEN ids[key.str][c]
                            ELSE cell]]]

\* acquiror_to_ids, line 133-141, of one verified match: ACME is matched to
\* ACME CORP, whose identifiers are all 1004.
acquiror_to_ids ==
    [a \in {<<"A","C","M","E">>} |->
        [c \in Range(IdColumns) |-> IF c = compustat_name THEN Text(<<"A","C","M","E"," ","C","O","R","P">>)
                                     ELSE Text(<<"1","0","0","4">>)]]

merge_compustat(main) == fill_ids(main, acquiror_to_ids)

\* The inputs of the aggregation. The dictionary maps three raw names to the
\* acquirors ACME and DELTA; the registry has the acquirors ACME, DELTA and
\* OMEGA, one of its two forms with a repeated row; the patent file has at
\* most MaxRecords records out of PatentPool.
MaxRecords == 2

ACME == <<"A","C","M","E">>
DELTA == <<"D","E","L","T","A">>
OMEGA == <<"O","M","E","G","A">>

MasterMapping ==
    [k \in {<<"A","C","M","E"," ","C","O","R","P">>, <<"A","C","M","E"," ","I","N","C">>, <<"D","E","L","T","A"," ","C","O">>} |->
        IF k = <<"D","E","L","T","A"," ","C","O">> THEN DELTA ELSE ACME]

RegistryRow(a, g) ==
    [c \in {acquiror_name, gvkey} |-> IF c = acquiror_name THEN Text(a) ELSE g]

Registries ==
    {[cols |-> <<acquiror_name, gvkey>>,
      rows |-> <<RegistryRow(ACME, NaN), RegistryRow(DELTA, Text(<<"7">>)),
                 RegistryRow(OMEGA, NaN)>>],
     [cols |-> <<acquiror_name, gvkey>>,
      rows |-> <<RegistryRow(DELTA, NaN), RegistryRow(ACME, NaN),
                 RegistryRow(DELTA, Text(<<"7">>))>>]}

\* n non-null inventor names followed by NaN up to the ten columns.
Names(n) == [i \in 1..NumInventorCols |-> IF i <= n THEN NameCell ELSE NaN]

PatentRecord(a, year, count, n) ==
    [assignee |-> a, application_year |-> year, inventors |-> count,
     inventor_names |-> Names(n)]

PatentPool ==
    {PatentRecord(<<"A","C","M","E"," ","C","O","R","P">>, Num(1993), Num(3), 5),
     PatentRecord(<<" ","A","C","M","E"," ","I","N","C"," ">>, Text(<<"1","9","9","3">>), NaN, 2),
     PatentRecord(<<"D","E","L","T","A"," ","C","O">>, Num(1994), Text(<<"7">>), 2),
     PatentRecord(<<"A","C","M","E"," ","C","O","R","P">>, Text(<<"N","/","A">>), Num(1), 0),
     PatentRecord(DELTA, Num(1995), Num(2), 1),
     PatentRecord(<<"Z","E","T","A"," ","L","T","D">>, Num(1993), NaN, 1)}

AggInit ==
    /\ registry_file \in Registries
    /\ \E k \in 0..MaxRecords : patent_file \in [1..k -> PatentPool]
    /\ mapping = MasterMapping
    /\ df_matched = <<>>
    /\ df_stats = EmptyTable
    /\ df_names = EmptyTable
    /\ df_final = EmptyTable
    /\ output_file = EmptyTable
    /\ first_output = EmptyTable
    /\ run = 1
    /\ apc = "process"
    /\ DictIdle
    /\ CleanIdle
    /\ MatchIdle
    /\ ParIdle
    /\ ValIdle
    /\ WeightIdle
    /\ FillIdle
    /\ NormIdle

\* main, line 272-281: the dictionary, the registry and the patent records
\* are loaded and process_patent_data is applied.
Process ==
    /\ apc = "process"
    /\ df_matched' = process_patent_data(patent_file, mapping)
    /\ apc' = "aggregate"
    /\ UNCHANGED <<registry_file, patent_file, mapping, df_stats, df_names, df_final,
                   output_file, first_output, run>>
    /\ UNCHANGED notAgg

\* main, line 284: aggregate_data(df_matched).
Aggregate ==
    /\ apc = "aggregate"
    /\ df_stats' = StatsTable(df_matched)
    /\ \E order \in AliasOrders(df_matched) : df_names' = NamesTable(df_matched, order)
    /\ apc' = "merge"
    /\ UNCHANGED <<registry_file, patent_file, mapping, df_matched, df_final,
                   output_file, first_output, run>>
    /\ UNCHANGED notAgg

\* main, line 287: merge_to_final_outcome on the registry as loaded.
Merge ==
    /\ apc = "merge"
    /\ df_final' = merge_to_final_outcome(load_main_database(registry_file),
                                           df_stats, df_names)
    /\ apc' = "save"
    /\ UNCHANGED <<registry_file, patent_file, mapping, df_matched, df_stats, df_names,
                   output_file, first_output, run>>
    /\ UNCHANGED notAgg

\* main, line 290: save_output(df_final).
SaveOutput ==
    /\ apc = "save"
    /\ output_file' = df_final
    /\ first_output' = IF run = 1 THEN df_final ELSE first_output
    /\ apc' = "done"
    /\ UNCHANGED <<registry_file, patent_file, mapping, df_matched, df_stats, df_names,
                   df_final, run>>
    /\ UNCHANGED notAgg

\* Step 4B reads the output of step 3 and writes final_outcome.xlsx, the
\* registry step 3 reads.
Step4B ==
    /\ apc = "done"
    /\ run = 1
    /\ registry_file' = merge_compustat(output_file)
    /\ apc' = "between"
    /\ UNCHANGED <<patent_file, mapping, df_matched, df_stats, df_names, df_final,
                   output_file, first_output, run>>
    /\ UNCHANGED notAgg

\* The output of step 3 is put in the place of the registry as it is.
ReuseOutput ==
    /\ apc = "done"
    /\ run = 1
    /\ registry_file' = output_file
    /\ apc' = "between"
    /\ UNCHANGED <<patent_file, mapping, df_matched, df_stats, df_names, df_final,
                   output_file, first_output, run>>
    /\ UNCHANGED notAgg

\* Step 3 is started again, in a new process, on the same patent records
\* and the same dictionary.
Rerun ==
    /\ apc = "between"
    /\ run = 1
    /\ run' = 2
    /\ apc' = "process"
    /\ UNCHANGED <<registry_file, patent_file, mapping, df_matched, df_stats, df_names,
                   df_final, output_file, first_output>>
    /\ UNCHANGED notAgg

AggNext ==
    \/ Process
    \/ Aggregate
    \/ Merge
    \/ SaveOutput
    \/ Step4B
    \/ ReuseOutput
    \/ Rerun

AggSpec == AggInit /\ [][AggNext]_vars

----------------------------------------------------------------------------
\* Step 4B alone (src/步骤4B_Compustat匹配.py): main on a registry table, a
\* reviewed verification table and a Compustat table

MaxMainRows == 2                    \* rows of the registry table
MaxVerified == 2                    \* rows of the verification table

\* The registry tables: with all identifier columns, with gvkey only, with
\* none. A row of the pool is cut to the columns of its table.
MainColumns ==
    {<<acquiror_name>> \o IdColumns, <<acquiror_name, gvkey>>, <<acquiror_name>>}

MainRow(a, g, cu, ci, n) ==
    [c \in {acquiror_name} \cup Range(IdColumns) |->
        IF c = acquiror_name THEN Text(a)
        ELSE IF c = gvkey THEN g
        ELSE IF c = cusip THEN cu
        ELSE IF c = cik THEN ci
        ELSE n]

MainPool ==
    {MainRow(ACME, NaN, NaN, NaN, NaN),
     MainRow(ACME, Text(<<"7">>), NaN, NaN, NaN),
     MainRow(DELTA, Text(<<"7">>), Text(<<"7">>), Text(<<"7">>), Text(<<"O","L","D">>)),
     MainRow(DELTA, NaN, Text(<<"7">>), NaN, NaN),
     MainRow(OMEGA, NaN, NaN, NaN, NaN)}

MainTable(cols, rows) ==
    [cols |-> cols,
     rows |-> [i \in DOMAIN rows |-> [c \in Range(cols) |-> rows[i][c]]]]

\* The reviewed matches: ACME twice with different Compustat names, DELTA
\* with a name Compustat does not have.
VerifiedRow(a, m) ==
    [Acquiror_Original |-> Text(a), Matched_Compustat_Original |-> Text(m)]

VerifiedPool ==
    {VerifiedRow(ACME, <<"A","C","M","E"," ","C","O","R","P">>),
     VerifiedRow(ACME, <<"A","C","M","E"," ","I","N","C">>),
     VerifiedRow(DELTA, <<"D","E","L","T","A"," ","C","O">>)}

CompRow(n, g, cu, ci) ==
    [c \in {conm, gvkey, cusip, cik} |->
        IF c = conm THEN n ELSE IF c = gvkey THEN g ELSE IF c = cusip THEN cu ELSE ci]

\* Two Compustat files: one with ACME CORP twice, a row without a name and
\* ACME INC without a cusip; one with ACME INC only.
CompTables ==
    {<<CompRow(Text(<<"A","C","M","E"," ","C","O","R","P">>), Text(<<"1","0","0","4">>), Text(<<"c","1">>), Text(<<"k","1">>)),
       CompRow(Text(<<"A","C","M","E"," ","C","O","R","P">>), Text(<<"2","0","0","0">>), Text(<<"c","2">>), Text(<<"k","2">>)),
       CompRow(NaN, Text(<<"9">>), Text(<<"9">>), Text(<<"9">>)),
       CompRow(Text(<<"A","C","M","E"," ","I","N","C">>), Text(<<"0","0","2","0">>), NaN, Text(<<"k","3">>))>>,
     <<CompRow(Text(<<"A","C","M","E"," ","I","N","C">>), Text(<<"0","0","2","0">>), NaN, Text(<<"k","3">>))>>}

FillInit ==
    /\ \E cols \in MainColumns :
         \E k \in 0..MaxMainRows :
            \E rows \in [1..k -> MainPool] : main4b = MainTable(cols, rows)
    /\ \E k \in 0..MaxVerified : df_verify \in [1..k -> VerifiedPool]
    /\ df_comp \in CompTables
    /\ read_ok \in BOOLEAN
    /\ final4b = EmptyTable
    /\ bpc = "load"
    /\ DictIdle
    /\ CleanIdle
    /\ MatchIdle
    /\ ParIdle
    /\ ValIdle
    /\ WeightIdle
    /\ AggIdle
    /\ NormIdle

\* main, line 57-99: one of the three reads raises, main returns False and
\* nothing is written.
ReadFails ==
    /\ bpc = "load"
    /\ ~read_ok
    /\ bpc' = "failed"
    /\ UNCHANGED <<main4b, df_verify, df_comp, read_ok, final4b>>
    /\ UNCHANGED notFill

\* main, line 57-172: the three tables are read, acquiror_to_ids is built,
\* the identifier cells are filled and the table is written.
ApplyVerified ==
    /\ bpc = "load"
    /\ read_ok
    /\ final4b' = fill_ids(main4b, build_acquiror_to_ids(df_verify, df_comp))
    /\ bpc' = "done"
    /\ UNCHANGED <<main4b, df_verify, df_comp, read_ok>>
    /\ UNCHANGED notFill

FillNext ==
    \/ ReadFails
    \/ ApplyVerified

FillSpec == FillInit /\ [][FillNext]_vars

----------------------------------------------------------------------------
\* The pipeline: the matching run, the reviewer of the review file and the
\* dictionary build of step 2, in any order

Remove(seq, i) == SubSeq(seq, 1, i - 1) \o SubSeq(seq, i + 1, Len(seq))

\* The reviewer deletes a wrong match from Step1_Manual_Review.xlsx.
ReviewerDelete ==
    /\ review_file.written /\ review_state = "pending"
    /\ \E i \in DOMAIN review_file.content :
          review_file' = Written(Remove(review_file.content, i))
    /\ UNCHANGED <<df_main, df_patent, main_clean, df_summary, acquiror_clean_list,
                   matches_for_review, matches_auto, auto_file, mpc, review_state>>
    /\ UNCHANGED notMatch

\* The reviewer has gone through the file: what is left in it is confirmed.
ReviewerConfirm ==
    /\ review_file.written /\ review_state = "pending"
    /\ review_state' = "confirmed"
    /\ UNCHANGED <<df_main, df_patent, main_clean, df_summary, acquiror_clean_list,
                   matches_for_review, matches_auto, review_file, auto_file, mpc>>
    /\ UNCHANGED notMatch

\* pd.read_excel: an empty cell is read as a null.
ReadCell(s) == IF s = <<>> THEN NULL ELSE s

\* What os.path.exists and pd.read_excel make of a file of step 1.
ReadBatch(path, file) ==
    IF file.written
    THEN [path |-> path,
          kind |-> "ok",
          rows |-> [i \in 1..Len(file.content) |->
                      Row(ReadCell(file.content[i].Assignee_Original),
                          ReadCell(file.content[i].Original_Acquiror_Name))]]
    ELSE [path |-> path, kind |-> "missing", rows |-> <<>>]

\* line 37-46: the review file first, the auto-accepted file second.
FILES_TO_PROCESS == <<ReadBatch(1, review_file), ReadBatch(2, auto_file)>>

\* Step 2, main (line 217-250): build_master_dictionary(FILES_TO_PROCESS),
\* save_dictionary, exit.
RunStep2 ==
    /\ dpc = "idle"
    /\ LET r == BuildResult(FILES_TO_PROCESS)
       IN  /\ master_dict' = r.md
           /\ conflicts' = r.conflicts
           /\ source_stats' = r.stats
           /\ counts' = r.counts
           /\ \E listing \in SortedListings(r.md) :
                 LET saved == SaveDictionary(r.md, r.stats, r.conflicts, listing, out)
                 IN  /\ out' = saved.out
                     /\ log' = r.log \o saved.log
                     /\ exit_code' = IF saved.ok THEN 0 ELSE 1
    /\ files' = FILES_TO_PROCESS
    /\ fi' = Len(FILES_TO_PROCESS) + 1
    /\ dpc' = "done"
    /\ UNCHANGED <<df_valid, ri>>
    /\ UNCHANGED notDict

PipeNext ==
    \/ MatchNext
    \/ ReviewerDelete
    \/ ReviewerConfirm
    \/ RunStep2

PipeSpec == MatchInit /\ [][PipeNext]_vars

----------------------------------------------------------------------------
\* Properties of the dictionary build (checked under DictSpec)

\* The pair the iterrows loop is about to process.
CurAssignee == Strip(df_valid[ri].Assignee_Original)
CurAcquiror == Strip(df_valid[ri].Original_Acquiror_Name)

\* The valid pairs of a list of batches, stripped, in processing order.
RECURSIVE ValidPairs(_)
ValidPairs(fs) ==
    IF fs = <<>> THEN <<>>
    ELSE (IF Head(fs).kind = "ok"
          THEN [i \in 1..Len(ValidRows(Head(fs).rows)) |->
                  <<Strip(ValidRows(Head(fs).rows)[i].Assignee_Original),
                    Strip(ValidRows(Head(fs).rows)[i].Original_Acquiror_Name)>>]
          ELSE <<>>) \o ValidPairs(Tail(fs))

Built == dpc \in {"save", "done"}

RECURSIVE SumField(_, _)
SumField(stats, f) ==
    IF stats = <<>> THEN 0 ELSE Head(stats)[f] + SumField(Tail(stats), f)

\* C1: a valid pair (A, Y) processed while A already maps to X # Y leaves
\* A -> X, discards Y and appends exactly one conflict record (A, kept X,
\* rejected Y, source batch); feeding (A -> X), (A -> Y) in order ends with
\* the mapping A -> X and the single conflict record {A, X, Y}.
C1_ConflictStep ==
    (/\ ProcessRow
     /\ CurAssignee \in DOMAIN master_dict
     /\ master_dict[CurAssignee] # CurAcquiror)
    => /\ master_dict' = master_dict
       /\ conflicts' = Append(conflicts,
                              [Assignee |-> CurAssignee,
                               Existing_Acquiror |-> master_dict[CurAssignee],
                               New_Acquiror |-> CurAcquiror,
                               Source_File |-> files[fi].path])

C1_Scenario ==
    (Built /\ ValidPairs(files) = << << <<"A">>, <<"X">> >>, << <<"A">>, <<"Y">> >> >>)
    => /\ master_dict = (<<"A">> :> <<"X">>)
       /\ Len(conflicts) = 1
       /\ conflicts[1].Assignee = <<"A">>
       /\ conflicts[1].Existing_Acquiror = <<"X">>
       /\ conflicts[1].New_Acquiror = <<"Y">>

C1_FirstWriteWinsOnConflict == [][C1_ConflictStep]_vars /\ []C1_Scenario

C1_Witness ==
    /\ Built
    /\ ValidPairs(files) = << << <<"A">>, <<"X">> >>, << <<"A">>, <<"Y">> >> >>
    /\ Len(files) = 2 /\ Len(conflicts) = 1
    /\ conflicts[1].Source_File = 2

\* C2: once a raw name K is in master_dict with value V, K stays and keeps V
\* in every later state of the build; no step updates or deletes an entry,
\* and a step that records a conflict leaves master_dict as it was.
C2_EntryKept ==
    /\ \A k \in DOMAIN master_dict :
          k \in DOMAIN master_dict' /\ master_dict'[k] = master_dict[k]
    /\ (conflicts' # conflicts => master_dict' = master_dict)

C2_FirstWritePermanent == [][C2_EntryKept]_vars

C2_Witness ==
    /\ dpc = "done"
    /\ master_dict = (<<"A">> :> <<"X">>)
    /\ conflicts # <<>>
    /\ \E i \in DOMAIN files : files[i].kind \in BadKinds

\* C3: a valid pair (A, X) processed while A already maps to X changes neither
\* master_dict nor the conflict list and adds one to the duplicate counter of
\* the current batch only; feeding (A -> X), (A -> X) ends with the mapping
\* A -> X, no conflict and one duplicate counted.
C3_DuplicateStep ==
    (/\ ProcessRow
     /\ CurAssignee \in DOMAIN master_dict
     /\ master_dict[CurAssignee] = CurAcquiror)
    => /\ master_dict' = master_dict
       /\ conflicts' = conflicts
       /\ counts' = [counts EXCEPT !.duplicate = @ + 1]
       /\ source_stats' = source_stats

C3_Scenario ==
    (Built /\ ValidPairs(files) = << << <<"A">>, <<"X">> >>, << <<"A">>, <<"X">> >> >>)
    => /\ master_dict = (<<"A">> :> <<"X">>)
       /\ conflicts = <<>>
       /\ SumField(source_stats, "Duplicates") = 1
       /\ SumField(source_stats, "Conflicts") = 0
       /\ SumField(source_stats, "New_Mappings") = 1

C3_DuplicateCounted == [][C3_DuplicateStep]_vars /\ []C3_Scenario

C3_Witness ==
    /\ Built
    /\ ValidPairs(files) = << << <<"A">>, <<"X">> >>, << <<"A">>, <<"X">> >> >>
    /\ \E i \in DOMAIN source_stats : source_stats[i].Duplicates = 1

\* The batches of a list that are read: the list with the bad ones removed.
IsOk(b) == b.kind = "ok"

\* C4: a batch that is missing, unreadable or lacks a required column is
\* skipped: master_dict and the conflict list are what they were, one
\* warning or error is logged, the loop goes on with the next batch, and the
\* build returns what it returns on the list without the bad batches.
C4_SkipStep ==
    (SkipMissing \/ SkipUnreadable \/ SkipNoCols)
    => /\ master_dict' = master_dict
       /\ conflicts' = conflicts
       /\ source_stats' = source_stats
       /\ Len(log') = Len(log) + 1
       /\ log'[Len(log')][1] \in {"WARNING", "ERROR"}
       /\ fi' = fi + 1

C4_Result ==
    Built =>
        LET r == BuildResult(SelectSeq(files, IsOk))
        IN  /\ master_dict = r.md
            /\ conflicts = r.conflicts
            /\ source_stats = r.stats
            /\ Len(source_stats) = Len(SelectSeq(files, IsOk))

C4_BadBatchSkipped == [][C4_SkipStep]_vars /\ []C4_Result

C4_Witness ==
    /\ Built
    /\ Len(files) = 3
    /\ files[2].kind \in BadKinds
    /\ Len(files[1].rows) = 1 /\ Len(files[3].rows) = 1
    /\ conflicts # <<>>
    /\ conflicts[1].Source_File = 3

\* C5: with master_dict empty after all batches, save_dictionary writes no
\* file and the run exits with status 1; with master_dict not empty the
\* pickle and the listing are written and the run exits with status 0.
C5_EmptyIsFatal ==
    /\ (exit_code = 1 => out = NoOutput)
    /\ (dpc = "done" /\ master_dict = EmptyDict => exit_code = 1 /\ out = NoOutput)
    /\ (dpc = "done" /\ master_dict # EmptyDict
            => /\ exit_code = 0
               /\ out.pkl = Written(master_dict)
               /\ out.excel.written
               /\ {out.excel.content[i] : i \in DOMAIN out.excel.content}
                      = Items(master_dict))
    /\ (dpc # "done" => exit_code = -1 /\ out = NoOutput)

C5_Witness ==
    /\ dpc = "done"
    /\ exit_code = 1
    /\ source_stats # <<>>
    /\ source_stats[1].Valid_Rows = 0
    /\ Len(files[1].rows) > 0

\* The batch of files_list a statistics entry was appended for.
BatchOf(stat) == files[stat.File]

\* The counters that belong to master_dict and conflicts as they stand: those
\* of the appended statistics, and inside the iterrows loop those of the
\* batch being processed.
Counted(f, running) ==
    SumField(source_stats, f) + (IF dpc = "rows" THEN counts[running] ELSE 0)

BatchBalanced(stat) ==
    /\ stat.Valid_Rows = Len(ValidRows(BatchOf(stat).rows))
    /\ stat.New_Mappings + stat.Duplicates + stat.Conflicts = stat.Valid_Rows

\* C24: the accounting of the dictionary build: for every processed batch
\* new + duplicate + conflict equals the batch's number of valid rows; after
\* any sequence of batches the per-batch new counts sum to the number of keys
\* of master_dict and the per-batch conflict counts to the length of the
\* conflict list (inside a batch the running counters stand for its entry).
C24_Accounting ==
    /\ \A i \in DOMAIN source_stats : BatchBalanced(source_stats[i])
    /\ dpc = "rows" =>
          counts.new + counts.duplicate + counts.conflict = ri - 1
    /\ Counted("New_Mappings", "new") = Cardinality(DOMAIN master_dict)
    /\ Counted("Conflicts", "conflict") = Len(conflicts)

\* Two batches are done, one brought a new key and a later one a conflict.
C24_Witness ==
    /\ dpc = "done"
    /\ Len(source_stats) = 2
    /\ source_stats[1].New_Mappings = 1
    /\ source_stats[2].Conflicts = 1
    /\ Len(conflicts) = 1
    /\ Cardinality(DOMAIN master_dict) = 1

----------------------------------------------------------------------------
\* Properties of the matching run (checked under MatchSpec)

\* The candidates of the run, and the rows of the two files it wrote.
AllMatches == matches_for_review \o matches_auto
Exported == review_file.content \o auto_file.content

\* The positions of the rows of a list that carry the raw name a.
RowsOf(rows, a) == {j \in DOMAIN rows : rows[j].Assignee_Original = a}

\* The first registry row whose cleaned name is that of row i.
FirstLike(i) ==
    CHOOSE f \in DOMAIN main_clean :
        /\ main_clean[f] = main_clean[i]
        /\ \A j \in 1..(f - 1) : main_clean[j] # main_clean[i]

\* The summary row k has one exported row, a strict match of similarity 100
\* that reports the registry name c.
StrictlyMatchedTo(k, c) ==
    /\ Cardinality(RowsOf(Exported, df_summary[k].assignee)) = 1
    /\ \A j \in RowsOf(Exported, df_summary[k].assignee) :
          /\ Exported[j].Match_Type = "Strict"
          /\ Exported[j].Similarity = Points(100)
          /\ Exported[j].Matched_Acquiror_Clean = df_summary[k].clean_name
          /\ Exported[j].Original_Acquiror_Name = c

\* C9 as stated: for any canonical name C of the registry, a raw record
\* whose normalized name equals clean_company_name(C) receives a strict match
\* with similarity 100 and the canonical name reported for it is C.
C9_StrictReportsC ==
    mpc = "done"
    => \A i \in DOMAIN df_main : \A k \in DOMAIN df_summary :
          df_summary[k].clean_name = main_clean[i]
          => StrictlyMatchedTo(k, df_main[i])

\* C9 amended: for any canonical name C of the registry, a raw record whose
\* normalized name is not empty and equals clean_company_name(C) receives a
\* strict match with similarity 100, and the canonical name reported for it
\* is the first registry name, in row order, whose normalized form equals
\* clean_company_name(C): C itself when no earlier registry name has that
\* normalized form. A raw record whose normalized name is empty is dropped
\* before matching and receives no match.
C9_StrictReportsFirst ==
    mpc = "done"
    => /\ \A i \in DOMAIN df_main : \A k \in DOMAIN df_summary :
             df_summary[k].clean_name = main_clean[i]
             => /\ StrictlyMatchedTo(k, df_main[FirstLike(i)])
                /\ (\A j \in 1..(i - 1) : main_clean[j] # main_clean[i])
                   => StrictlyMatchedTo(k, df_main[i])
       /\ \A g \in df_patent :
             Clean(g.assignee) = <<>> => RowsOf(Exported, g.assignee) = {}

\* Two registry names share a normalized form, a raw name has it, and its
\* match reports the first of the two; a raw name with an empty normalized
\* form was in the patent table.
C9_Witness ==
    /\ mpc = "done"
    /\ \E i, j \in DOMAIN df_main :
          /\ i < j
          /\ main_clean[i] = main_clean[j]
          /\ df_main[i] # df_main[j]
          /\ \E k \in DOMAIN df_summary :
                /\ df_summary[k].clean_name = main_clean[j]
                /\ StrictlyMatchedTo(k, df_main[i])

InSeq(rows, r) == \E j \in DOMAIN rows : rows[j] = r

\* The tiers of the summary: a row is in Tier 1 exactly when it is among the
\* first floor(n / 20) rows, the rows are in descending order of count, and
\* a remaining row is in Tier 2 when its count is above 5, in Tier 3
\* otherwise.
TierPartition ==
    LET n == Len(df_summary)
        tier1 == df_tier1(df_summary)
        tier2 == df_tier2(df_summary)
        tier3 == df_tier3(df_summary)
    IN  /\ \A k \in 1..(n - 1) :
              df_summary[k].patent_count >= df_summary[k + 1].patent_count
        /\ \A k \in DOMAIN df_summary :
              LET r == df_summary[k]
                  in1 == InSeq(tier1, r)
                  in2 == InSeq(tier2, r)
                  in3 == InSeq(tier3, r)
              IN  /\ in1 <=> k <= n \div 20
                  /\ in2 <=> (k > n \div 20 /\ r.patent_count > 5)
                  /\ in3 <=> (k > n \div 20 /\ r.patent_count <= 5)
                  /\ Cardinality({t \in {1, 2, 3} :
                        \/ t = 1 /\ in1
                        \/ t = 2 /\ in2
                        \/ t = 3 /\ in3}) = 1
        /\ Len(tier1) + Len(tier2) + Len(tier3) = n

\* The canonical set of the run: the cleaned names of the registry.
CanonicalSet == {main_clean[i] : i \in DOMAIN main_clean}

\* At most one candidate per raw name, in the lists and in the files; a
\* candidate is for a summarized raw name; a fuzzy candidate is for a name
\* whose normalized form is not in the canonical set.
OneCandidate ==
    /\ \A k \in DOMAIN df_summary :
          /\ Cardinality(RowsOf(AllMatches, df_summary[k].assignee)) <= 1
          /\ Cardinality(RowsOf(Exported, df_summary[k].assignee)) <= 1
          /\ \A j \in RowsOf(AllMatches, df_summary[k].assignee) :
                /\ AllMatches[j].Assignee_Clean = df_summary[k].clean_name
                /\ AllMatches[j].Match_Type = "Strict"
                      <=> df_summary[k].clean_name \in CanonicalSet
                /\ AllMatches[j].Match_Type \in {"Strict", "Fuzzy (>=90)", "Fuzzy (>=100)"}
    /\ \A j \in DOMAIN AllMatches :
          \E k \in DOMAIN df_summary :
              df_summary[k].assignee = AllMatches[j].Assignee_Original

\* When the run is over every name of the canonical set has its strict
\* candidate, and the files hold the candidates of the lists.
OneOutcome ==
    mpc = "done"
    => /\ \A k \in DOMAIN df_summary :
             df_summary[k].clean_name \in CanonicalSet
             => Cardinality(RowsOf(AllMatches, df_summary[k].assignee)) = 1
       /\ \A k \in DOMAIN df_summary :
             Cardinality(RowsOf(Exported, df_summary[k].assignee))
               = Cardinality(RowsOf(AllMatches, df_summary[k].assignee))

\* C10: in one tiered matching run every summarized raw name belongs to
\* exactly one of Tier 1 (the first floor(5% of n) names by descending record
\* count), Tier 2 (remaining, count > 5) and Tier 3 (remaining, count <= 5)
\* and receives exactly one outcome: one strict candidate, one fuzzy
\* candidate or no candidate; no raw name appears in more than one candidate
\* across the review and auto-accept outputs, and a fuzzy candidate is
\* produced only for a name whose normalized form is not in the canonical
\* set.
C10_OneTierOneOutcome ==
    mpc # "load" => (TierPartition /\ OneCandidate /\ OneOutcome)

\* A finished run with three non-empty tiers and the three outcomes: a
\* strict candidate, a fuzzy candidate and a name without candidate.
C10_Witness ==
    /\ mpc = "done"
    /\ df_tier1(df_summary) # <<>>
    /\ df_tier2(df_summary) # <<>>
    /\ df_tier3(df_summary) # <<>>
    /\ \E j \in DOMAIN Exported : Exported[j].Match_Type = "Strict"
    /\ \E j \in DOMAIN Exported : Exported[j].Match_Type = "Fuzzy (>=90)"
    /\ \E k \in DOMAIN df_summary : RowsOf(Exported, df_summary[k].assignee) = {}

\* The best similarity of a cleaned name over the whole canonical list, 0
\* for an empty list.
BestScore(clean) ==
    LET all == {Scores[clean, acquiror_clean_list[i]] : i \in DOMAIN acquiror_clean_list}
    IN  IF all = {} THEN 0 ELSE CHOOSE m \in all : \A x \in all : x <= m

\* The rows of a tier that go to the fuzzy step, and the tier's threshold.
SentToFuzzy(tier) ==
    SelectSeq(tier, LAMBDA r : r.clean_name \notin CanonicalSet)

\* The rows sent to the fuzzy step with threshold t have a fuzzy candidate
\* exactly when their best similarity is at least t, and the candidate has
\* that best similarity, reached by the name it gives.
FuzzyOutcome(tier, t, tier_name) ==
    \A k \in DOMAIN SentToFuzzy(tier) :
        LET r == SentToFuzzy(tier)[k]
            hits == RowsOf(AllMatches, r.assignee)
        IN  /\ (hits # {}) <=> (BestScore(r.clean_name) >= Points(t))
            /\ \A j \in hits :
                  /\ AllMatches[j].Match_Type = FuzzyType(t)
                  /\ AllMatches[j].Tier = tier_name
                  /\ AllMatches[j].Similarity = BestScore(r.clean_name)
                  /\ AllMatches[j].Similarity >= Points(t)
                  /\ \E i \in DOMAIN acquiror_clean_list :
                        /\ acquiror_clean_list[i] = AllMatches[j].Matched_Acquiror_Clean
                        /\ Scores[r.clean_name, acquiror_clean_list[i]]
                             = AllMatches[j].Similarity

\* C11: for every record sent to fuzzy matching in a tier with threshold T
\* (90 for Tier 1, 100 for Tier 2) a fuzzy candidate is emitted if and only
\* if some canonical normalized name scores at least T against the record's
\* normalized name, the emitted candidate's similarity is the maximum score
\* over the whole canonical list and is at least T, and no emitted fuzzy
\* candidate has a similarity below its tier's threshold.
C11_FuzzyAtThreshold ==
    /\ mpc \in {"tier2", "tier3", "export", "done"}
          => FuzzyOutcome(df_tier1(df_summary), 90, "Tier 1")
    /\ mpc \in {"tier3", "export", "done"}
          => FuzzyOutcome(df_tier2(df_summary), 100, "Tier 2")
    /\ \A j \in DOMAIN AllMatches :
          /\ AllMatches[j].Match_Type = "Fuzzy (>=90)"
                => AllMatches[j].Similarity >= Points(90)
          /\ AllMatches[j].Match_Type = "Fuzzy (>=100)"
                => AllMatches[j].Similarity >= Points(100)

\* A finished run with a Tier 1 fuzzy candidate between 90 and 100 out of a
\* canonical list of two names or more, a Tier 2 fuzzy candidate, and a
\* Tier 2 row sent to the fuzzy step that got none.
C11_Witness ==
    /\ mpc = "done"
    /\ Len(acquiror_clean_list) >= 2
    /\ \E j \in DOMAIN AllMatches :
          /\ AllMatches[j].Match_Type = "Fuzzy (>=90)"
          /\ AllMatches[j].Similarity < Points(100)
    /\ \E j \in DOMAIN AllMatches : AllMatches[j].Match_Type = "Fuzzy (>=100)"
    /\ \E k \in DOMAIN df_tier2(df_summary) :
          /\ df_tier2(df_summary)[k].clean_name \notin CanonicalSet
          /\ RowsOf(AllMatches, df_tier2(df_summary)[k].assignee) = {}

\* The candidates perform_matching gives for a tier of the summary.
TierHits(tier, tier_name, has_fuzzy, threshold) ==
    perform_matching(tier, tier_name, has_fuzzy, threshold,
                     CanonicalSet, acquiror_clean_list)

\* The candidates of the whole run, tier by tier.
RunHits ==
    LET t1 == TierHits(df_tier1(df_summary), "Tier 1", TRUE, 90)
        t2 == TierHits(df_tier2(df_summary), "Tier 2", TRUE, 100)
        t3 == TierHits(df_tier3(df_summary), "Tier 3", FALSE, 0)
    IN  t1.strict \o t1.fuzzy \o t2.strict \o t2.fuzzy \o t3.strict \o t3.fuzzy

IsFuzzy(c) == c.Match_Type \in {"Fuzzy (>=90)", "Fuzzy (>=100)"}

\* C12: every Tier 1 candidate, strict or fuzzy, is in the manual-review
\* queue and never in the auto-accept set; every Tier 2 strict candidate is
\* auto-accepted and every Tier 2 fuzzy candidate goes to manual review;
\* Tier 3 gives only strict candidates, all auto-accepted, and no fuzzy
\* candidate carries Tier 3; the review queue and the auto-accept set are
\* disjoint and together hold every candidate of the run.
C12_TierRouting ==
    /\ \A j \in DOMAIN matches_for_review :
          \/ matches_for_review[j].Tier = "Tier 1"
          \/ /\ matches_for_review[j].Tier = "Tier 2"
             /\ IsFuzzy(matches_for_review[j])
    /\ \A j \in DOMAIN matches_auto :
          /\ matches_auto[j].Tier \in {"Tier 2", "Tier 3"}
          /\ matches_auto[j].Match_Type = "Strict"
    /\ \A j \in DOMAIN AllMatches :
          IsFuzzy(AllMatches[j]) => AllMatches[j].Tier # "Tier 3"
    /\ \A i \in DOMAIN matches_for_review : \A j \in DOMAIN matches_auto :
          matches_for_review[i] # matches_auto[j]
    /\ mpc \in {"export", "done"}
          => /\ Len(AllMatches) = Len(RunHits)
             /\ \A j \in DOMAIN RunHits :
                   LET c == RunHits[j]
                       review == c.Tier = "Tier 1" \/ (c.Tier = "Tier 2" /\ IsFuzzy(c))
                   IN  /\ InSeq(matches_for_review, c) <=> review
                       /\ InSeq(matches_auto, c) <=> ~review

\* A finished run with a strict Tier 1 candidate and a fuzzy Tier 2
\* candidate, both under review and neither accepted.
C12_Witness ==
    /\ mpc = "done"
    /\ \E j \in DOMAIN matches_for_review :
          /\ matches_for_review[j].Tier = "Tier 1"
          /\ matches_for_review[j].Match_Type = "Strict"
    /\ \E j \in DOMAIN matches_for_review :
          /\ matches_for_review[j].Tier = "Tier 2"
          /\ IsFuzzy(matches_for_review[j])
    /\ matches_auto = <<>>

\* The candidates of the fuzzy tiers of the run when list(set(...)) of line
\* 286 gives the canonical names in the order of clean_list.
HitsWith(clean_list) ==
    LET t1 == perform_matching(df_tier1(df_summary), "Tier 1", TRUE, 90,
                               CanonicalSet, clean_list)
        t2 == perform_matching(df_tier2(df_summary), "Tier 2", TRUE, 100,
                               CanonicalSet, clean_list)
    IN  {t1.strict[j] : j \in DOMAIN t1.strict} \cup {t1.fuzzy[j] : j \in DOMAIN t1.fuzzy}
        \cup {t2.strict[j] : j \in DOMAIN t2.strict} \cup {t2.fuzzy[j] : j \in DOMAIN t2.fuzzy}

\* C14: two runs of the tiered matcher on the same records, the same
\* registry and the same thresholds give the same set of candidates, with
\* the same matched canonical name for every fuzzy candidate, also when
\* several canonical names tie for the top score: the candidates do not
\* depend on the order in which list(set(...)) gives the canonical names.
C14_Deterministic ==
    mpc \in {"tier3", "export", "done"}
        => \A other \in ListsOf(CanonicalSet) :
               HitsWith(other) = HitsWith(acquiror_clean_list)

----------------------------------------------------------------------------
\* Properties of the parallel fuzzy step (checked under ParSpec)

\* How many times x occurs in a list.
RECURSIVE Occurrences(_, _)
Occurrences(seq, x) ==
    IF seq = <<>> THEN 0
    ELSE (IF Head(seq) = x THEN 1 ELSE 0) + Occurrences(Tail(seq), x)

\* Two lists hold the same candidates as unordered collections.
SameCollection(a, b) ==
    /\ Len(a) = Len(b)
    /\ \A i \in DOMAIN a : Occurrences(a, a[i]) = Occurrences(b, a[i])

\* On a machine that leaves at least one worker, the parallel branch ends
\* with the candidates of the serial branch.
ParallelAgreesWithWorkers ==
    /\ n_cpu >= 2 => ppc # "raised"
    /\ ppc = "done" => SameCollection(fuzzy_res, serial_res)

\* C13: for any unmatched rows, canonical list and threshold, the parallel
\* branch (the rows split over min(cpu_count() - 1, 4) workers, each chunk
\* processed by fuzzy_match_batch, the results concatenated) completes and
\* yields, as an unordered collection, the candidates of the serial branch.
C13_ParallelSameAsSerial ==
    /\ ppc # "raised"
    /\ ppc = "done" => SameCollection(fuzzy_res, serial_res)

----------------------------------------------------------------------------
\* Properties of validate_matches (checked under ValSpec)

\* An issue of a kind is in the list.
HasIssue(list, kind) == \E i \in DOMAIN list : list[i].kind = kind

\* Some original name is paired with more than one distinct matched name.
Ambiguous(df) ==
    \E i, j \in DOMAIN df :
        /\ df[i].Assignee_Original = df[j].Assignee_Original
        /\ df[i].Matched_Acquiror_Clean # df[j].Matched_Acquiror_Clean

\* C19: validate_matches is advisory only: it leaves the candidate
\* collection unchanged, reports an ambiguity issue exactly when some
\* original name is paired with more than one distinct matched canonical
\* name, reports a short-name issue exactly when some candidate's normalized
\* name has fewer than 3 characters, and returns no issues and empty
\* statistics for an empty collection.
C19_AdvisoryOnly ==
    [][vpc = "call" /\ vpc' = "returned"
         => /\ df_matches' = df_matches
            /\ HasIssue(issues', "one_to_many") <=> Ambiguous(df_matches)
            /\ HasIssue(issues', "short_names")
                  <=> \E j \in DOMAIN df_matches : Len(df_matches[j].Assignee_Clean) < 3
            /\ df_matches = <<>> => issues' = <<>> /\ val_stats' = EmptyStats]_vars

\* A returned call on a list in which a raw name has two candidates with
\* different matched names and one with a short cleaned name, reported by
\* the two issues.
C19_Witness ==
    /\ vpc = "returned"
    /\ Ambiguous(df_matches)
    /\ \E j \in DOMAIN df_matches : Len(df_matches[j].Assignee_Clean) < 3
    /\ HasIssue(issues, "one_to_many")
    /\ HasIssue(issues, "short_names")

----------------------------------------------------------------------------
\* Properties of the weight of a record (checked under WeightSpec)

\* The numeric value of the explicit count field: 0 when it is absent or
\* not numeric.
CountSignal(cell) ==
    IF cell.type = "num" THEN cell.num
    ELSE IF cell.type = "str" /\ \E n \in 0..99 : Numeral(n) = cell.str
         THEN CHOOSE n \in 0..99 : Numeral(n) = cell.str
         ELSE 0

\* The number of non-null values among the named sub-fields.
NameSignal(cells) == Cardinality({i \in DOMAIN cells : cells[i].type # "nan"})

\* C15: calculate_inventor_count_vectorized gives a record the weight
\* max(c, k), c the numeric value of its count field (0 when absent or not
\* numeric) and k the number of its non-null sub-fields: the weight is one
\* of the two signals and never smaller than either; count 3 with 5
\* sub-fields gives 5, count 7 with 2 sub-fields gives 7.
C15_WeightIsMax ==
    wpc = "returned" =>
        LET c == CountSignal(inventors)
            k == NameSignal(inventor_names)
        IN  /\ final_inventor_count \in {c, k}
            /\ final_inventor_count >= c
            /\ final_inventor_count >= k
            /\ c = 3 /\ k = 5 => final_inventor_count = 5
            /\ c = 7 /\ k = 2 => final_inventor_count = 7

\* A weighed record with count 3 and 5 non-null sub-fields out of ten.
C15_Witness ==
    /\ wpc = "returned"
    /\ inventors = Num(3)
    /\ Len(inventor_names) = NumInventorCols
    /\ NameSignal(inventor_names) = 5
    /\ final_inventor_count = 5

----------------------------------------------------------------------------
\* Properties of the aggregation (checked under AggSpec)

\* The sum of a field over a set of rows.
RECURSIVE SumOver(_, _)
SumOver(S, field) ==
    IF S = {} THEN 0
    ELSE LET g == CHOOSE g \in S : TRUE IN g[field] + SumOver(S \ {g}, field)

\* The records of the patent file whose stripped raw name is a key of the
\* dictionary, by their position in the file.
MappedRecords ==
    {i \in DOMAIN patent_file : Strip(patent_file[i].assignee) \in DOMAIN mapping}

\* A record has a period: its application year is a number or spells one.
HasPeriod(r) ==
    \/ r.application_year.type = "num"
    \/ /\ r.application_year.type = "str"
       /\ r.application_year.str # <<>>
       /\ \A i \in DOMAIN r.application_year.str : r.application_year.str[i] \in Digits

\* The weight of a record: the larger of its two signals.
RecordWeight(r) ==
    IF CountSignal(r.inventors) >= NameSignal(r.inventor_names)
    THEN CountSignal(r.inventors) ELSE NameSignal(r.inventor_names)

RECURSIVE WeightOf(_)
WeightOf(I) ==
    IF I = {} THEN 0
    ELSE LET i == CHOOSE i \in I : TRUE
         IN  RecordWeight(patent_file[i]) + WeightOf(I \ {i})

\* The groups a record of the file is counted in.
GroupsOf(r) ==
    {g \in df_grouped(df_matched) :
        /\ g.Matched_Acquiror = mapping[Strip(r.assignee)]
        /\ Numeral(g.application_year)
             = (IF r.application_year.type = "num" THEN Numeral(r.application_year.num)
                ELSE r.application_year.str)}

\* The records in I are each counted in exactly one group, and the groups
\* hold their number and their weight.
CountedOnce(I) ==
    /\ \A i \in I : Cardinality(GroupsOf(patent_file[i])) = 1
    /\ SumOver(df_grouped(df_matched), "assignee") = Cardinality(I)
    /\ SumOver(df_grouped(df_matched), "final_inventor_count") = WeightOf(I)

\* C20 as stated: only the records without a dictionary entry are left out
\* of the aggregation: every record whose stripped raw name is a key of the
\* dictionary is counted in exactly one (acquiror, year) group, so the
\* group counts sum to the number of mapped records and the group weights
\* to their total weight.
C20_MappedAllCounted ==
    apc \in {"aggregate", "merge", "save", "done"} => CountedOnce(MappedRecords)

\* C20 as amended: every record whose stripped raw name is a key of the
\* dictionary and whose application year is numeric is counted in exactly
\* one (acquiror, year) group; the group counts sum to the number of these
\* records and the group weights to their total weight.
C20_MappedWithYearCounted ==
    apc \in {"aggregate", "merge", "save", "done"}
        => CountedOnce({i \in MappedRecords : HasPeriod(patent_file[i])})

\* A finished run on a file with a mapped record whose raw name needs the
\* strip, a mapped record without a numeric year, and one group.
C20_Witness ==
    /\ apc = "done"
    /\ \E i \in MappedRecords :
          /\ HasPeriod(patent_file[i])
          /\ patent_file[i].assignee # Strip(patent_file[i].assignee)
    /\ \E i \in MappedRecords : ~HasPeriod(patent_file[i])
    /\ Cardinality(df_grouped(df_matched)) = 1

\* The matched records of the acquiror of a registry row in a year.
RecordsIn(row, year) ==
    {j \in DOMAIN df_matched :
        /\ row[acquiror_name] = Text(df_matched[j].Matched_Acquiror)
        /\ df_matched[j].application_year = year}

\* C17: in the table merge_to_final_outcome returns every metric column
\* (patent_<year>, patent_inventor_<year>) holds a non-null integer in every
\* registry row, and 0 for an acquiror without matched records, or without
\* any in that year.
C17_MetricsZeroFilled ==
    apc \in {"save", "done"} =>
        \A y \in Years(df_matched) :
            \A c \in {patent_col(y), patent_inventor_col(y)} :
                /\ c \in Range(df_final.cols)
                /\ \A i \in DOMAIN df_final.rows :
                      /\ df_final.rows[i][c].type = "num"
                      /\ df_final.rows[i][c].num \in Nat
                      /\ RecordsIn(df_final.rows[i], y) = {}
                            => df_final.rows[i][c].num = 0

\* A merged table with the columns of two years, an acquiror with records
\* in one of them only and an acquiror without records.
C17_Witness ==
    /\ apc = "done"
    /\ Cardinality(Years(df_matched)) = 2
    /\ \E i \in DOMAIN df_final.rows :
          \A y \in Years(df_matched) : RecordsIn(df_final.rows[i], y) = {}
    /\ \E i \in DOMAIN df_final.rows :
          \E y1, y2 \in Years(df_matched) :
              /\ RecordsIn(df_final.rows[i], y1) # {}
              /\ RecordsIn(df_final.rows[i], y2) = {}
              /\ df_final.rows[i][patent_col(y1)] = Num(1)
              /\ df_final.rows[i][patent_col(y2)] = Num(0)

\* The tables a run of the aggregation can end with on a registry, a list
\* of patent records and a dictionary.
PossibleOutputs(registry, records, master) ==
    LET matched == process_patent_data(records, master)
    IN  {merge_to_final_outcome(load_main_database(registry), StatsTable(matched),
                                NamesTable(matched, order)) :
            order \in AliasOrders(matched)}

\* The records of the patent file whose stripped raw name is no key of the
\* dictionary, by their position in the file.
UnmappedRecords == DOMAIN patent_file \ MappedRecords

\* The patent file without the records at the positions in U.
Without(U) ==
    LET kept == Ascending(DOMAIN patent_file \ U)
    IN  [i \in 1..Len(kept) |-> patent_file[kept[i]]]

\* C16: a record whose stripped raw name is no key of the dictionary
\* contributes nothing: with any number of such records taken out of (put
\* into) the patent file the aggregation ends with the same table, every
\* metric cell and every alias cell unchanged, and the run on the file with
\* them ends without an error.
C16_UnmappedContributeNothing ==
    apc \in {"save", "done"} =>
        \A U \in SUBSET UnmappedRecords :
            /\ df_final \in PossibleOutputs(registry_file, Without(U), mapping)
            /\ PossibleOutputs(registry_file, Without(U), mapping)
                 = PossibleOutputs(registry_file, patent_file, mapping)

\* A finished run on a file with a mapped record and an unmapped record
\* whose raw name is the name of an acquirer of the registry.
C16_Witness ==
    /\ apc = "done"
    /\ MappedRecords # {}
    /\ \E i \in UnmappedRecords :
          \E j \in DOMAIN df_final.rows :
              df_final.rows[j][acquiror_name] = Text(patent_file[i].assignee)

\* The metric columns of a table.
MetricColumns(table) == stat_cols(table.cols)

\* How many columns of a table have the name c.
TimesIn(table, c) == Cardinality({i \in DOMAIN table.cols : table.cols[i] = c})

\* The second run ends with the metric columns of the first run, each of
\* them once, and with the same metric cells.
RerunKeepsMetrics ==
    run = 2 /\ apc = "done" =>
        /\ MetricColumns(output_file) = MetricColumns(first_output)
        /\ Len(output_file.rows) = Len(first_output.rows)
        /\ \A c \in MetricColumns(output_file) :
              /\ TimesIn(output_file, c) = 1
              /\ \A i \in DOMAIN output_file.rows :
                    output_file.rows[i][c] = first_output.rows[i][c]

\* C18: the aggregation run again on a registry that carries the metric
\* and alias columns of the first run, with the same patent records and the
\* same dictionary, also when the registry went through step 4B in between,
\* ends with exactly the table of the first run (the same columns in the
\* same order, the same cells, alias cells included), every metric column
\* name occurring once.
C18_RerunIdentical ==
    run = 2 /\ apc = "done" =>
        /\ output_file = first_output
        /\ \A c \in MetricColumns(output_file) : TimesIn(output_file, c) = 1

\* The period of a record that has one, as the numeral of its year.
PeriodOf(r) ==
    IF r.application_year.type = "num" THEN Numeral(r.application_year.num)
    ELSE r.application_year.str

\* The resolved records of the patent file whose raw name maps to the
\* acquiror of a registry row and whose period is P, by their position.
ResolvedFor(row, P) ==
    {i \in MappedRecords :
        /\ HasPeriod(patent_file[i])
        /\ PeriodOf(patent_file[i]) = P
        /\ Text(mapping[Strip(patent_file[i].assignee)]) = row[acquiror_name]}

\* The periods of the resolved records.
ResolvedPeriods ==
    {PeriodOf(patent_file[i]) : i \in {j \in MappedRecords : HasPeriod(patent_file[j])}}

\* The acquiror names of a table.
NamesOf(table) == {table.rows[i][acquiror_name] : i \in DOMAIN table.rows}

\* C21: in the output every registry entity E and every period P with
\* metric columns has patent_P(E) equal to the number of resolved records
\* whose raw name maps to E and whose period is P, and patent_inventor_P(E)
\* equal to the sum of the weights of exactly those records; the periods
\* with metric columns are those of the resolved records; and the output
\* has exactly one row per distinct acquiror name of the registry, whatever
\* the matched records are.
C21_MetricsAreCounts ==
    apc \in {"save", "done"} =>
        /\ \A P \in ResolvedPeriods :
              /\ patent_ \o P \in Range(df_final.cols)
              /\ patent_inventor_ \o P \in Range(df_final.cols)
              /\ \A i \in DOMAIN df_final.rows :
                    /\ df_final.rows[i][patent_ \o P]
                         = Num(Cardinality(ResolvedFor(df_final.rows[i], P)))
                    /\ df_final.rows[i][patent_inventor_ \o P]
                         = Num(WeightOf(ResolvedFor(df_final.rows[i], P)))
        /\ \A c \in Range(df_final.cols) :
              (IsOldColumn(c) /\ ~startswith(c, patent_name))
                 => \E P \in ResolvedPeriods : c \in {patent_ \o P, patent_inventor_ \o P}
        /\ NamesOf(df_final) = NamesOf(registry_file)
        /\ \A i, j \in DOMAIN df_final.rows :
              df_final.rows[i][acquiror_name] = df_final.rows[j][acquiror_name] => i = j

\* A finished run in which two records, one of them with a raw name that
\* needs the strip and a year written as text, fall to one acquiror and one
\* period, on a registry that names an acquiror twice.
C21_Witness ==
    /\ apc = "done"
    /\ Len(registry_file.rows) > Len(df_final.rows)
    /\ \E i \in DOMAIN df_final.rows :
          \E P \in ResolvedPeriods :
              /\ Cardinality(ResolvedFor(df_final.rows[i], P)) = 2
              /\ df_final.rows[i][patent_ \o P] = Num(2)
              /\ df_final.rows[i][patent_inventor_ \o P] = Num(7)

----------------------------------------------------------------------------
\* Properties of step 4B (checked under FillSpec)

\* The acquirors the verification table has a reviewed match for.
VerifiedAcquirors ==
    {df_verify[i].Acquiror_Original : i \in DOMAIN df_verify}

HasVerifiedMatch(i) == main4b.rows[i][acquiror_name] \in VerifiedAcquirors

\* The cell of row i under c before the run: a column the table lacks has no
\* value.
CellBefore(i, c) ==
    IF c \in Range(main4b.cols) THEN main4b.rows[i][c] ELSE NaN

\* C23: step 4B only fills empty identifier cells: a gvkey, cusip, cik or
\* compustat_name that is non-null before the run is the same after it; a
\* null cell is filled only in a row whose acquiror_name has a verified
\* match; a row without a verified match is unchanged; the number and the
\* order of the registry rows, and every other column, are kept.
C23_FillsOnlyEmpty ==
    bpc = "done" =>
        /\ Len(final4b.rows) = Len(main4b.rows)
        /\ \A i \in DOMAIN main4b.rows :
              /\ \A c \in Range(main4b.cols) \ Range(IdColumns) :
                    final4b.rows[i][c] = main4b.rows[i][c]
              /\ \A c \in Range(IdColumns) :
                    /\ CellBefore(i, c).type # "nan" =>
                          final4b.rows[i][c] = CellBefore(i, c)
                    /\ final4b.rows[i][c] # CellBefore(i, c) => HasVerifiedMatch(i)

\* A verified row keeps the gvkey it had and gets a cik, next to a row
\* without a verified match.
C23_Witness ==
    /\ bpc = "done"
    /\ Len(main4b.rows) = 2
    /\ \E i, j \in DOMAIN main4b.rows :
          /\ HasVerifiedMatch(i)
          /\ CellBefore(i, gvkey).type = "str"
          /\ final4b.rows[i][gvkey] = CellBefore(i, gvkey)
          /\ CellBefore(i, cik).type = "nan"
          /\ final4b.rows[i][cik].type = "str"
          /\ ~HasVerifiedMatch(j)

----------------------------------------------------------------------------
\* Properties of the pipeline (checked under PipeSpec)

\* The row of a file of step 1 that gives the entry k -> v of the mapping.
GivenBy(file, k, v) ==
    /\ file.written
    /\ \E j \in DOMAIN file.content :
          /\ Strip(file.content[j].Assignee_Original) = k
          /\ Strip(file.content[j].Original_Acquiror_Name) = v

\* The build of step 2 takes its mapping from auto-accepted candidates and
\* from candidates of a review file the reviewer has confirmed.
C6_BuildStep ==
    (dpc = "idle" /\ dpc' = "done")
    => \A k \in DOMAIN master_dict' :
          \/ GivenBy(auto_file, k, master_dict'[k])
          \/ /\ review_state = "confirmed"
             /\ GivenBy(review_file, k, master_dict'[k])

\* C6: in every ordering of the pipeline steps every entry raw -> canonical
\* that ends up in the mapping comes from a candidate that was auto-accepted
\* by the matcher or had already passed human review when the build consumed
\* it; the build never ingests a review-queue candidate that the reviewer
\* has not yet confirmed.
C6_OnlyValidatedIngested == [][C6_BuildStep]_vars

====
